---------------------------- MODULE Spec2Model ----------------------------
(***************************************************************************)
(* A model of interpret.py, the interpreter of IPPcode23 programs given as *)
(* XML: the loader (XMLParser.validate_instructions), the machine state of *)
(* IPPInterpreter, the dispatcher (execute_instructions) and the           *)
(* instruction handlers (the execute methods).                             *)
(*                                                                         *)
(* Text is modelled as sequences of code points (Python str): the lexeme   *)
(* "GF@v" is <<71, 70, 64, 118>>.  Opcodes and the type attribute of an    *)
(* argument are TLA+ strings, as they are only compared with constants.    *)
(* Python list indices are 0-based: instructions[k] of the code is         *)
(* instructions[k + 1] here, and current_position keeps the 0-based value. *)
(***************************************************************************)
EXTENDS Integers, Sequences, FiniteSets, TLC

VARIABLES
    root,                         \* the root of the XML source: well-formedness, tag, language
    doc,                          \* the child elements of the root, in document order
    phase,                        \* "load" | "run" | "done": position of the module-level script
    instructions,                 \* IPPInterpreter.instructions (sorted by order)
    labels,                       \* IPPInterpreter.labels: label name -> order
    frames,                       \* IPPInterpreter.frames: GF/LF/TF -> reference to a frame or None
    heap,                         \* the frame objects (dicts) the references point to
    frame_stack,                  \* IPPInterpreter.frame_stack: references
    call_stack,                   \* IPPInterpreter.call_stack
    data_stack,                   \* IPPInterpreter.data_stack: (value, type) pairs
    current_position,             \* IPPInterpreter.current_position
    executed_instructions_count,  \* IPPInterpreter.executed_instructions_count
    instr_name,                   \* local instr_name of execute_instructions
    error_code,                   \* the code the script exits with
    input_lines,                  \* IPPInterpreter.input_lines: the lines of the --input file
    input_line_index,             \* IPPInterpreter.input_line_index
    stdin,                        \* the lines of standard input not yet read
    stdout                        \* the text written to standard output

vars == <<root, doc, phase, instructions, labels, frames, heap, frame_stack, call_stack,
          data_stack, current_position, executed_instructions_count, instr_name,
          error_code, input_lines, input_line_index, stdin, stdout>>

machine == <<frames, heap, frame_stack, call_stack, data_stack>>

\* what only READ moves: the index into input_lines and standard input
reader == <<input_line_index, stdin>>

-----------------------------------------------------------------------------
(* Bounds of the model. *)

\* longest document of the loader specification
MaxDocLen == 3
\* largest order attribute of the loader specification
MaxOrder == 3
\* longest document of the loader specification with order attributes that
\* are no ASCII numbers
MaxSpecialLen == 2
\* longest program of the control-flow specification
MaxFlowLen == 4
\* longest program of the data specification, after its two DEFVARs
MaxDataLen == 2
\* longest program of the frame specification
MaxFrameLen == 4
\* most jumps, calls and returns a program of a specification takes
MaxJumps == 6
\* number of MOVEs that set up the variables before an operation
MaxMoves == 1

\* longest program of the stack specification, after its DEFVAR
MaxStackLen == 4

\* longest program of the dispatcher specification
MaxDispatchLen == 3

\* longest program of the input specification, after its DEFVAR
MaxReads == 3
\* most lines of the --input file, and most lines on standard input
MaxLines == 2

\* longest program of the type specification, after its two DEFVARs
MaxTypeLen == 2

\* longest program of the INT2CHAR specification, after its DEFVAR
MaxCharLen == 2

\* longest program of the store specification, after its preamble
MaxStoreLen == 2

\* longest program of the position specification
MaxPcLen == 3

-----------------------------------------------------------------------------
(* Text helpers. *)

\* [0-9], [0-7] and [0-9a-fA-F] of the patterns
IsDigit(c) == c \in 48..57
IsOctDigit(c) == c \in 48..55
IsHexDigit(c) == c \in 48..57 \/ c \in 97..102 \/ c \in 65..70

\* the decimal digits of Unicode 14.0, the version of the interpreter's
\* Python 3.11: 66 runs of ten characters with the values 0..9, each given
\* here by its zero.  These are the characters of \d in a pattern, of
\* str.isdecimal, and the digits that int() accepts
DecimalZeros ==
    {48, 1632, 1776, 1984, 2406, 2534, 2662, 2790, 2918, 3046, 3174, 3302, 3430, 3558,
     3664, 3792, 3872, 4160, 4240, 6112, 6160, 6470, 6608, 6784, 6800, 6992, 7088, 7232,
     7248, 42528, 43216, 43264, 43472, 43504, 43600, 44016, 65296, 66720, 68912, 69734,
     69872, 69942, 70096, 70384, 70736, 70864, 71248, 71360, 71472, 71904, 72016, 72784,
     73040, 73120, 92768, 92864, 93008, 120782, 120792, 120802, 120812, 120822, 123200,
     123632, 125264, 130032}

IsDecimal(c) ==
    IF c < 128 THEN c \in 48..57 ELSE \E z \in DecimalZeros : c \in z..(z + 9)

\* the value 0..9 of a decimal digit
DecimalValue(c) ==
    IF c < 128 THEN c - 48 ELSE c - (CHOOSE z \in DecimalZeros : c \in z..(z + 9))

\* the characters that are digits for str.isdigit without being decimal
\* digits: superscripts, subscripts, circled digits and the like
OtherDigits ==
    (178..179) \cup {185} \cup (4969..4977) \cup {6618, 8304} \cup (8308..8313)
        \cup (8320..8329) \cup (9312..9320) \cup (9332..9340) \cup (9352..9360)
        \cup {9450} \cup (9461..9469) \cup {9471} \cup (10102..10110)
        \cup (10112..10120) \cup (10122..10130) \cup (68160..68163)
        \cup (69216..69224) \cup (69714..69722) \cup (127232..127242)

\* str.isdigit of a text
isdigit(s) == Len(s) > 0 /\ \A k \in 1..Len(s) : IsDecimal(s[k]) \/ s[k] \in OtherDigits

\* the white space that int() strips from both ends of its text
IntSpaces ==
    (9..13) \cup {32, 133, 160, 5760} \cup (8192..8202) \cup {8232, 8233, 8239, 8287, 12288}
IsLetter(c) == c \in 97..122 \/ c \in 65..90
\* the special characters _ - $ & % * ! ? of identifiers
IsSpecial(c) == c \in {95, 45, 36, 38, 37, 42, 33, 63}

StartsWith(s, p) == Len(s) >= Len(p) /\ SubSeq(s, 1, Len(p)) = p
Drop(s, n) == SubSeq(s, n + 1, Len(s))

\* a text that is no ASCII text: what stands for every lower or upper case
\* of a character that has a character outside ASCII in it
NotAscii == <<0 - 1>>

\* c.lower() of one character where that is ASCII text: the letters A..Z and
\* the KELVIN SIGN have an ASCII lower case, the other ASCII characters are
\* their own, and no other character has one
AsciiLower(c) ==
    IF c \in 65..90 THEN <<c + 32>>
    ELSE IF c \in 0..127 THEN <<c>>
    ELSE IF c = 8490 THEN <<107>>
    ELSE NotAscii

\* c.upper() of one character where that is ASCII text: a..z, and the sharp
\* s, the dotless i, the long s and the ligatures ff fi fl ffi ffl st st
AsciiUpper(c) ==
    IF c \in 97..122 THEN <<c - 32>>
    ELSE IF c \in 0..127 THEN <<c>>
    ELSE CASE c = 223 -> <<83, 83>>
           [] c = 305 -> <<73>>
           [] c = 383 -> <<83>>
           [] c = 64256 -> <<70, 70>>
           [] c = 64257 -> <<70, 73>>
           [] c = 64258 -> <<70, 76>>
           [] c = 64259 -> <<70, 70, 73>>
           [] c = 64260 -> <<70, 70, 76>>
           [] c \in {64261, 64262} -> <<83, 84>>
           [] OTHER -> NotAscii

RECURSIVE LowerFrom(_, _)
LowerFrom(s, k) == IF k > Len(s) THEN <<>> ELSE AsciiLower(s[k]) \o LowerFrom(s, k + 1)

RECURSIVE UpperFrom(_, _)
UpperFrom(s, k) == IF k > Len(s) THEN <<>> ELSE AsciiUpper(s[k]) \o UpperFrom(s, k + 1)

\* s.lower() == t and s.upper() == t for an ASCII text t: the case of a text
\* is the cases of its characters in a row, but for a capital sigma, whose
\* lower case depends on its place and is never ASCII
LowerIs(s, t) == LowerFrom(s, 1) = t
UpperIs(s, t) == UpperFrom(s, 1) = t

\* position of the first "@" of s, 0 when there is none
RECURSIVE FindAt(_, _)
FindAt(s, k) ==
    IF k > Len(s) THEN 0
    ELSE IF s[k] = 64 THEN k
    ELSE FindAt(s, k + 1)

\* the number of "@" in s
CountAt(s) == Cardinality({k \in 1..Len(s) : s[k] = 64})

\* s.split('@', 1): the text before and after the first "@"
SplitAt(s) ==
    LET k == FindAt(s, 1)
    IN  [frame_name |-> SubSeq(s, 1, k - 1), var_name |-> Drop(s, k)]

GF == <<71, 70>>
LF == <<76, 70>>
TF == <<84, 70>>

\* frame_name.upper() as a key of self.frames: GF, LF or TF when it is one
\* of them, and NoKey, which is no key, when it is none
NoKey == <<>>

frame_key(frame_name) ==
    IF UpperIs(frame_name, GF) THEN GF
    ELSE IF UpperIs(frame_name, LF) THEN LF
    ELSE IF UpperIs(frame_name, TF) THEN TF
    ELSE NoKey

\* the texts "nil", "true", "false", "bool", "int", "string"
TxtNil == <<110, 105, 108>>
TxtTrue == <<116, 114, 117, 101>>
TxtFalse == <<102, 97, 108, 115, 101>>
TxtBool == <<98, 111, 111, 108>>
TxtInt == <<105, 110, 116>>
TxtString == <<115, 116, 114, 105, 110, 103>>

-----------------------------------------------------------------------------
(* Values: the (value, type) pairs of the code.  One record shape is used  *)
(* for all of them: t is the type, and i, b, s hold the Python value when  *)
(* it is an int, a bool or a str.  The value of nil is the str 'nil'.      *)

IntV(n) == [t |-> "int", i |-> n, b |-> FALSE, s |-> <<>>]
BoolV(x) == [t |-> "bool", i |-> 0, b |-> x, s |-> <<>>]
StrV(x) == [t |-> "string", i |-> 0, b |-> FALSE, s |-> x]
NilV == [t |-> "nil", i |-> 0, b |-> FALSE, s |-> TxtNil]
\* Python None: an uninitialised slot, an absent result
None == [t |-> "None", i |-> 0, b |-> FALSE, s |-> <<>>]

\* the reference None of frames['LF'] and frames['TF']
NoFrame == 0
\* the reference of the dict created for frames['GF']
GlobalFrame == 1

-----------------------------------------------------------------------------
(* replace_escapeSequences and the re.sub(r'\\[0-9]{3}', ...) that uses it *)

replace_escapeSequences(d1, d2, d3) == 100 * (d1 - 48) + 10 * (d2 - 48) + (d3 - 48)

RECURSIVE DecodeFrom(_, _)
DecodeFrom(s, k) ==
    IF k > Len(s) THEN <<>>
    ELSE IF /\ s[k] = 92
            /\ k + 3 <= Len(s)
            /\ IsDigit(s[k + 1]) /\ IsDigit(s[k + 2]) /\ IsDigit(s[k + 3])
         THEN <<replace_escapeSequences(s[k + 1], s[k + 2], s[k + 3])>>
                  \o DecodeFrom(s, k + 4)
         ELSE <<s[k]>> \o DecodeFrom(s, k + 1)

DecodeEscapes(s) == DecodeFrom(s, 1)

-----------------------------------------------------------------------------
(* Integers as text: Python's int(text, base) and str(int).                *)

\* the value of a digit for int(): a decimal digit of Unicode has its value,
\* the letters a..z and A..Z are 10..35
DigitVal(c) ==
    IF IsDecimal(c) THEN DecimalValue(c)
    ELSE IF c \in 97..122 THEN c - 87
    ELSE c - 55

InBase(c, base) ==
    /\ IsDecimal(c) \/ c \in 97..122 \/ c \in 65..90
    /\ DigitVal(c) < base

\* characters of a class with single underscores between them
GroupedBy(s, Ok(_)) ==
    /\ Len(s) > 0
    /\ Ok(s[1])
    /\ Ok(s[Len(s)])
    /\ \A k \in 1..Len(s) : Ok(s[k]) \/ s[k] = 95
    /\ \A k \in 1..(Len(s) - 1) : ~(s[k] = 95 /\ s[k + 1] = 95)

\* digits of the base with single underscores between them
Grouped(s, base) == GroupedBy(s, LAMBDA c : InBase(c, base))

RECURSIVE DigitsValue(_, _, _, _)
DigitsValue(s, k, base, acc) ==
    IF k > Len(s) THEN acc
    ELSE IF s[k] = 95 THEN DigitsValue(s, k + 1, base, acc)
    ELSE DigitsValue(s, k + 1, base, acc * base + DigitVal(s[k]))

\* int(text, base) for base 8, 10, 16: white space at both ends, an optional
\* sign, for base 8 and 16 an optional prefix 0o / 0x (an underscore may
\* follow it), then grouped digits.
RECURSIVE LStrip(_, _)
LStrip(s, spaces) ==
    IF Len(s) > 0 /\ s[1] \in spaces THEN LStrip(Tail(s), spaces) ELSE s

RECURSIVE RStrip(_, _)
RStrip(s, spaces) ==
    IF Len(s) > 0 /\ s[Len(s)] \in spaces THEN RStrip(SubSeq(s, 1, Len(s) - 1), spaces)
    ELSE s

\* the characters str.strip and str.rstrip remove
StrSpaces == IntSpaces \cup (28..31)

strip(s) == RStrip(LStrip(s, StrSpaces), StrSpaces)

\* text is written back as it is and parsed again (lines 171, 1182): the
\* parser turns a carriage return, with the line feed after it if any, into
\* a line feed
RECURSIVE LineEnds(_)
LineEnds(s) ==
    IF \A k \in 1..Len(s) : s[k] # 13 THEN s
    ELSE IF s[1] = 13
         THEN <<10>> \o LineEnds(IF Len(s) > 1 /\ s[2] = 10 THEN Tail(Tail(s)) ELSE Tail(s))
         ELSE <<s[1]>> \o LineEnds(Tail(s))

Signed(s) == Len(s) > 0 /\ s[1] \in {43, 45}

Unsigned(s) == IF Signed(s) THEN Drop(s, 1) ELSE s

Prefixed(body, base) ==
    /\ Len(body) >= 2
    /\ IsDecimal(body[1]) /\ DecimalValue(body[1]) = 0
    /\ body[2] \in (IF base = 16 THEN {120, 88} ELSE IF base = 8 THEN {111, 79} ELSE {})

\* the digits of an unsigned text: what follows the prefix and its underscore
Digits(body, base) ==
    IF ~Prefixed(body, base) THEN body
    ELSE IF Len(body) > 2 /\ body[3] = 95 THEN Drop(body, 3)
    ELSE Drop(body, 2)

\* sys.int_info.default_max_str_digits: the most digits int() converts from a
\* text, and str() to a text, in a base that is no power of two
MaxStrDigits == 4300

\* the digits of a text, the grouping underscores not counted
DigitCount(digits) == Cardinality({k \in 1..Len(digits) : digits[k] # 95})

\* ok = FALSE stands for ValueError
PyDigits(digits, base, negative) ==
    IF ~Grouped(digits, base) THEN [ok |-> FALSE, n |-> 0]
    ELSE IF base = 10 /\ Len(digits) > MaxStrDigits /\ DigitCount(digits) > MaxStrDigits
    THEN [ok |-> FALSE, n |-> 0]
    ELSE IF negative THEN [ok |-> TRUE, n |-> 0 - DigitsValue(digits, 1, base, 0)]
    ELSE [ok |-> TRUE, n |-> DigitsValue(digits, 1, base, 0)]

PyInt(s, base) ==
    LET text == RStrip(LStrip(s, IntSpaces), IntSpaces)
    IN  PyDigits(Digits(Unsigned(text), base), base, Signed(text) /\ text[1] = 45)

\* IPPInterpreter.parse_int: ok = FALSE stands for the result None
parse_int(value) ==
    IF StartsWith(value, <<48, 120>>) \/ StartsWith(value, <<48, 88>>)
    THEN PyInt(value, 16)
    ELSE IF StartsWith(value, <<48, 111>>) \/ StartsWith(value, <<48, 79>>)
    THEN PyInt(value, 8)
    ELSE PyInt(value, 10)

RECURSIVE NatStr(_)
NatStr(n) == IF n < 10 THEN <<48 + n>> ELSE NatStr(n \div 10) \o <<48 + (n % 10)>>

\* str(n) of an int
IntStr(n) == IF n < 0 THEN <<45>> \o NatStr(0 - n) ELSE NatStr(n)

\* str(n) raises ValueError: n has more than MaxStrDigits digits
StrRaises(n) == DigitCount(IntStr(n)) - (IF n < 0 THEN 1 ELSE 0) > MaxStrDigits

\* the int of C, which chr() converts its argument to
MaxCInt == 2147483647
MinCInt == 0 - 2147483647 - 1

\* An int of Python has no width.  The value of an int n of the int of C is
\* IntV(n); the value of any other int is LongV: b is its sign and s holds
\* the hexadecimal digits of its magnitude, the first of them not zero.
LongV(negative, hex) == [t |-> "int", i |-> 0, b |-> negative, s |-> hex]

IsLong(v) == v.t = "int" /\ v.s # <<>>

RECURSIVE HexValue(_, _, _)
HexValue(hex, k, acc) ==
    IF k > Len(hex) THEN acc ELSE HexValue(hex, k + 1, acc * 16 + hex[k])

\* the int a value of type int holds
Num(v) ==
    IF ~IsLong(v) THEN v.i
    ELSE IF v.b THEN 0 - HexValue(v.s, 1, 0)
    ELSE HexValue(v.s, 1, 0)

RECURSIVE HexOf(_)
HexOf(n) == IF n < 16 THEN <<n>> ELSE HexOf(n \div 16) \o <<n % 16>>

\* the value that holds the int n
IntOf(n) ==
    IF MinCInt <= n /\ n <= MaxCInt THEN IntV(n)
    ELSE LongV(n < 0, HexOf(IF n < 0 THEN 0 - n ELSE n))

\* low <= n <= high for the int n of a value, low and high ints of C
Within(v, low, high) == ~IsLong(v) /\ low <= v.i /\ v.i <= high

\* the hexadecimal digits of grouped digits of base 16, the underscores and
\* the leading zeros left out
HexDigits(digits) ==
    LET plain == SelectSeq(digits, LAMBDA c : c # 95)
        first == CHOOSE k \in 1..(Len(plain) + 1) :
                     /\ k <= Len(plain) => DigitVal(plain[k]) # 0
                     /\ \A j \in 1..(k - 1) : DigitVal(plain[j]) = 0
    IN  [k \in 1..(Len(plain) + 1 - first) |-> DigitVal(plain[first + k - 1])]

\* the int of these digits is an int of C
FitsCInt(hex) == Len(hex) < 8 \/ (Len(hex) = 8 /\ hex[1] < 8)

\* parse_int with its result as a value, IntOf(parse_int(value).n).  A text
\* that starts with 0x has no sign: its value is taken from its hexadecimal
\* digits, which are the digits of LongV beyond the int of C
parse_value(value) ==
    LET digits == Digits(RStrip(value, IntSpaces), 16)
        hex == HexDigits(digits)
    IN  IF /\ StartsWith(value, <<48, 120>>) \/ StartsWith(value, <<48, 88>>)
           /\ Grouped(digits, 16)
        THEN [ok |-> TRUE,
              v |-> IF FitsCInt(hex) THEN IntV(HexValue(hex, 1, 0)) ELSE LongV(FALSE, hex)]
        \* parse_int(value), evaluated once as p
        ELSE CHOOSE r \in {[ok |-> p.ok, v |-> IntOf(p.n)] : p \in {parse_int(value)}} : TRUE

\* the hexadecimal digits of 10^MaxStrDigits, the least int whose str() raises
MaxStrHex == 3572

\* StrRaises(Num(v)) for a value of type int: the count of the hexadecimal
\* digits of a long int decides unless it is MaxStrHex
StrRaisesValue(v) ==
    IF IsLong(v) /\ Len(v.s) # MaxStrHex THEN Len(v.s) > MaxStrHex
    ELSE StrRaises(Num(v))

-----------------------------------------------------------------------------
(* XMLParser: the tables and the lexers of the argument types.             *)

valid_opcodes ==
    [CREATEFRAME |-> 0, PUSHFRAME |-> 0, POPFRAME |-> 0, RETURN |-> 0, BREAK |-> 0,
     DEFVAR |-> 1, POPS |-> 1, CALL |-> 1, LABEL |-> 1, JUMP |-> 1, PUSHS |-> 1,
     WRITE |-> 1, EXIT |-> 1, DPRINT |-> 1,
     MOVE |-> 2, INT2CHAR |-> 2, NOT |-> 2, STRLEN |-> 2, TYPE |-> 2, READ |-> 2,
     ADD |-> 3, SUB |-> 3, MUL |-> 3, IDIV |-> 3, LT |-> 3, GT |-> 3, EQ |-> 3,
     AND |-> 3, OR |-> 3, STRI2INT |-> 3, CONCAT |-> 3, GETCHAR |-> 3, SETCHAR |-> 3,
     JUMPIFEQ |-> 3, JUMPIFNEQ |-> 3]

IsIdent(s) ==
    /\ Len(s) > 0
    /\ IsLetter(s[1]) \/ IsSpecial(s[1])
    /\ \A k \in 1..Len(s) : IsLetter(s[k]) \/ IsSpecial(s[k]) \/ IsDigit(s[k])

\* The $ that closes every pattern matches at the end of the text and also
\* before a line feed that ends it: the pattern is tried on both texts.
DollarEnds(s) ==
    IF Len(s) > 0 /\ s[Len(s)] = 10 THEN {s, SubSeq(s, 1, Len(s) - 1)} ELSE {s}

\* "string": ^([^\\]|\\\d{3})*$, \d being every decimal digit of Unicode
RECURSIVE StringLexFrom(_, _)
StringLexFrom(s, k) ==
    IF k > Len(s) THEN TRUE
    ELSE IF s[k] = 92
         THEN /\ k + 3 <= Len(s)
              /\ IsDecimal(s[k + 1]) /\ IsDecimal(s[k + 2]) /\ IsDecimal(s[k + 3])
              /\ StringLexFrom(s, k + 4)
         ELSE StringLexFrom(s, k + 1)

\* "int": an optional sign, then decimal | octal | hexadecimal.  The decimal
\* alternative is written with \d, every decimal digit of Unicode; the other
\* two with [0-7] and [0-9a-fA-F]
IntBody(s) ==
    LET body == IF Len(s) > 0 /\ s[1] \in {43, 45} THEN Drop(s, 1) ELSE s
    IN  \/ /\ GroupedBy(body, IsDecimal)
           /\ ~(Len(body) >= 2 /\ body[1] = 48 /\ IsDecimal(body[2]))
        \/ /\ Len(body) >= 2 /\ body[1] = 48
           /\ GroupedBy(IF body[2] \in {111, 79} THEN Drop(body, 2) ELSE Drop(body, 1),
                        IsOctDigit)
        \/ /\ Len(body) >= 3 /\ body[1] = 48 /\ body[2] \in {120, 88}
           /\ GroupedBy(Drop(body, 2), IsHexDigit)

IntLex(s) == \E b \in DollarEnds(s) : IntBody(b)

\* valid_argtypes: does the text match the pattern of the type?
FullMatch(arg_type, s) ==
    CASE arg_type = "var" ->
            /\ Len(s) >= 3
            /\ SubSeq(s, 1, 3) \in {LF \o <<64>>, TF \o <<64>>, GF \o <<64>>}
            /\ IsIdent(Drop(s, 3))
      [] arg_type = "type" -> s \in {TxtBool, TxtInt, TxtString}
      [] arg_type = "label" -> IsIdent(s)
      [] arg_type = "nil" -> s = TxtNil
      [] arg_type = "string" -> StringLexFrom(s, 1)
      [] arg_type = "bool" -> s \in {TxtTrue, TxtFalse}
      [] arg_type = "int" -> IntBody(s)
      [] OTHER -> FALSE

MatchesArgType(arg_type, s) == \E b \in DollarEnds(s) : FullMatch(arg_type, b)

valid_argtypes == {"var", "type", "label", "nil", "string", "bool", "int"}

\* the keys of valid_opcodes, as texts
OpcodeText ==
    [CREATEFRAME |-> <<67, 82, 69, 65, 84, 69, 70, 82, 65, 77, 69>>,
     PUSHFRAME |-> <<80, 85, 83, 72, 70, 82, 65, 77, 69>>,
     POPFRAME |-> <<80, 79, 80, 70, 82, 65, 77, 69>>,
     RETURN |-> <<82, 69, 84, 85, 82, 78>>,
     BREAK |-> <<66, 82, 69, 65, 75>>,
     DEFVAR |-> <<68, 69, 70, 86, 65, 82>>,
     POPS |-> <<80, 79, 80, 83>>,
     CALL |-> <<67, 65, 76, 76>>,
     LABEL |-> <<76, 65, 66, 69, 76>>,
     JUMP |-> <<74, 85, 77, 80>>,
     PUSHS |-> <<80, 85, 83, 72, 83>>,
     WRITE |-> <<87, 82, 73, 84, 69>>,
     EXIT |-> <<69, 88, 73, 84>>,
     DPRINT |-> <<68, 80, 82, 73, 78, 84>>,
     MOVE |-> <<77, 79, 86, 69>>,
     INT2CHAR |-> <<73, 78, 84, 50, 67, 72, 65, 82>>,
     NOT |-> <<78, 79, 84>>,
     STRLEN |-> <<83, 84, 82, 76, 69, 78>>,
     TYPE |-> <<84, 89, 80, 69>>,
     READ |-> <<82, 69, 65, 68>>,
     ADD |-> <<65, 68, 68>>,
     SUB |-> <<83, 85, 66>>,
     MUL |-> <<77, 85, 76>>,
     IDIV |-> <<73, 68, 73, 86>>,
     LT |-> <<76, 84>>,
     GT |-> <<71, 84>>,
     EQ |-> <<69, 81>>,
     AND |-> <<65, 78, 68>>,
     OR |-> <<79, 82>>,
     STRI2INT |-> <<83, 84, 82, 73, 50, 73, 78, 84>>,
     CONCAT |-> <<67, 79, 78, 67, 65, 84>>,
     GETCHAR |-> <<71, 69, 84, 67, 72, 65, 82>>,
     SETCHAR |-> <<83, 69, 84, 67, 72, 65, 82>>,
     JUMPIFEQ |-> <<74, 85, 77, 80, 73, 70, 69, 81>>,
     JUMPIFNEQ |-> <<74, 85, 77, 80, 73, 70, 78, 69, 81>>]

\* element.get(name) of an attribute the element does not have: None
Absent == <<0 - 1>>

NoOpcode == ""

\* the key of valid_opcodes that opcode.upper() is, NoOpcode when it is none
opcode_upper(opcode) ==
    LET upper == IF opcode = Absent THEN NotAscii ELSE UpperFrom(opcode, 1)
    IN  IF \E n \in DOMAIN valid_opcodes : OpcodeText[n] = upper
        THEN CHOOSE n \in DOMAIN valid_opcodes : OpcodeText[n] = upper
        ELSE NoOpcode

\* int(arg.tag[-1]) of a tag that matches arg[123]$, 0 for every other tag
arg_index(tag) ==
    CASE tag = "arg1" -> 1 [] tag = "arg2" -> 2 [] tag = "arg3" -> 3 [] OTHER -> 0

\* XMLParser.parse_instruction.  An element is [tag, order, opcode, args]: the
\* attributes order and opcode are texts (Absent when missing), args are the
\* children in document order, each [tag, arg_type, value].  The instruction
\* returned is [order, opcode, args]: order the number, opcode the key of
\* valid_opcodes that the handlers get by opcode.upper(), args the arguments
\* arg1..argN as [arg_type, value].  An error_code of -1 stands for the
\* ValueError of int(order), which nothing catches.
parse_instruction(xml_instruction) ==
    LET order == xml_instruction.order
        opcode == xml_instruction.opcode
        kids == xml_instruction.args
        name == opcode_upper(opcode)
        number == PyInt(order, 10)
        arg_tags == {arg_index(kids[k].tag) : k \in 1..Len(kids)}
        arg(i) == kids[CHOOSE k \in 1..Len(kids) : arg_index(kids[k].tag) = i]
        Invalid(code) == [error_code |-> code, instruction |-> None]
    IN  IF order = Absent \/ ~isdigit(order) THEN Invalid(32)
        ELSE IF ~number.ok THEN Invalid(0 - 1)
        ELSE IF number.n < 1 THEN Invalid(32)
        ELSE IF opcode = Absent \/ opcode = <<>> \/ name = NoOpcode THEN Invalid(32)
        ELSE IF \E k \in 1..Len(kids) :
                    \/ arg_index(kids[k].tag) = 0
                    \/ \E j \in 1..(k - 1) : kids[j].tag = kids[k].tag
             THEN Invalid(32)
        ELSE IF Cardinality(arg_tags) # valid_opcodes[name] THEN Invalid(32)
        ELSE IF \E i \in 1..Cardinality(arg_tags) : i \notin arg_tags THEN Invalid(32)
        ELSE IF \E i \in arg_tags :
                    \/ arg(i).arg_type \notin valid_argtypes
                    \/ ~MatchesArgType(arg(i).arg_type, arg(i).value)
             THEN Invalid(32)
        ELSE [error_code |-> 0,
              instruction |->
                  [order |-> number.n, opcode |-> name,
                   args |-> [i \in 1..Cardinality(arg_tags) |->
                                [arg_type |-> arg(i).arg_type, value |-> arg(i).value]]]]

-----------------------------------------------------------------------------
(* XMLParser.validate_instructions                                         *)

\* a loader that does not sort
SortByOrder_DocumentOrder(s) == s

\* instructions.sort(key=order): a stable sort, by insertion
RECURSIVE SortByOrder(_)
SortByOrder(s) ==
    IF Len(s) = 0 THEN <<>>
    ELSE LET sorted == SortByOrder(SubSeq(s, 1, Len(s) - 1))
             x == s[Len(s)]
             k == Cardinality({j \in 1..Len(sorted) : sorted[j].order <= x.order})
         IN  SubSeq(sorted, 1, k) \o <<x>> \o SubSeq(sorted, k + 1, Len(sorted))

NoLabels == [n \in {} |-> 0]

LoadError(code) == [instructions |-> <<>>, labels |-> NoLabels, error_code |-> code]

\* a loader that lets a second LABEL of a name replace the first
RECURSIVE ScanDoc_LastLabelWins(_, _, _, _)
ScanDoc_LastLabelWins(d, k, instrs, labs) ==
    IF k > Len(d)
    THEN [instructions |-> SortByOrder(instrs), labels |-> labs, error_code |-> 0]
    ELSE LET parsed == parse_instruction(d[k])
             instruction == parsed.instruction
             isLabel == instruction.opcode = "LABEL"
             label_name == instruction.args[1].value
         IN  IF d[k].tag # "instruction" THEN LoadError(32)
             ELSE IF parsed.error_code # 0 THEN LoadError(parsed.error_code)
             ELSE IF \E j \in 1..Len(instrs) : instrs[j].order = instruction.order
                  THEN LoadError(32)
             ELSE ScanDoc_LastLabelWins(d, k + 1, Append(instrs, instruction),
                          IF isLabel
                          THEN [n \in DOMAIN labs \cup {label_name} |->
                                   IF n = label_name THEN instruction.order ELSE labs[n]]
                          ELSE labs)

\* the loop over the children of the root, from child k on
RECURSIVE ScanDoc(_, _, _, _)
ScanDoc(d, k, instrs, labs) ==
    IF k > Len(d)
    THEN [instructions |-> SortByOrder(instrs), labels |-> labs, error_code |-> 0]
    ELSE LET parsed == parse_instruction(d[k])
             instruction == parsed.instruction
             isLabel == instruction.opcode = "LABEL"
             label_name == instruction.args[1].value
         IN  IF d[k].tag # "instruction" THEN LoadError(32)
             ELSE IF parsed.error_code # 0 THEN LoadError(parsed.error_code)
             ELSE IF isLabel /\ label_name \in DOMAIN labs THEN LoadError(52)
             ELSE IF \E j \in 1..Len(instrs) : instrs[j].order = instruction.order
                  THEN LoadError(32)
             ELSE ScanDoc(d, k + 1, Append(instrs, instruction),
                          IF isLabel
                          THEN [n \in DOMAIN labs \cup {label_name} |->
                                   IF n = label_name THEN instruction.order ELSE labs[n]]
                          ELSE labs)

validate_instructions(d) == ScanDoc(d, 1, <<>>, NoLabels)

\* XMLParser.remove_whitespace_from_xml on the children of the root: the text
\* of every argument is stripped, and the source is written and parsed again
remove_whitespace(d) ==
    [k \in 1..Len(d) |->
        [d[k] EXCEPT !.args =
            [j \in 1..Len(d[k].args) |->
                [d[k].args[j] EXCEPT !.value = LineEnds(strip(d[k].args[j].value))]]]]

\* XMLParser.check_header; the root is None when the source did not parse
check_header(r) ==
    IF ~r.well_formed THEN 31
    ELSE IF r.tag # "program" \/ r.language # "IPPcode23" THEN 32
    ELSE 0

\* XMLParser.validate, then the second validate_instructions of the script
validate(r, d) ==
    IF check_header(r) # 0 THEN LoadError(check_header(r)) ELSE validate_instructions(d)

\* lines 1174-1187 of the script: remove_whitespace_from_xml ends with 31 on
\* a source that is not well-formed, then the parser validates what is left
load_source(r, d) ==
    IF ~r.well_formed THEN LoadError(31) ELSE validate(r, remove_whitespace(d))

-----------------------------------------------------------------------------
(* IPPInterpreter: frames, operand values, results.                        *)

EmptyFrame == [n \in {} |-> None]

Range(s) == {s[k] : k \in 1..Len(s)}

\* a list without its last element, and its last element: s[:-1], s[-1]
Front(s) == SubSeq(s, 1, Len(s) - 1)
Top(s) == s[Len(s)]

\* frame[name] = v of a dict
Put(frame, name, v) ==
    [n \in DOMAIN frame \cup {name} |-> IF n = name THEN v ELSE frame[n]]

\* the frame objects still referenced; the others are garbage
Collect(h, fr, st) ==
    LET live == ({fr[GF], fr[LF], fr[TF]} \cup Range(st)) \ {NoFrame}
    IN  [r \in DOMAIN h \cap live |-> h[r]]

\* the reference of a newly created dict: the least one not in use
NewRef(used) ==
    CHOOSE r \in 1..(Cardinality(used) + 1) :
        r \notin used /\ \A q \in 1..(r - 1) : q \in used

\* IPPInterpreter.is_variable_defined; -1 stands for a raised exception
is_variable_defined(var) ==
    LET sp == SplitAt(var)
        frame_name == frame_key(sp.frame_name)
    IN  IF FindAt(var, 1) = 0 \/ frame_name \notin DOMAIN frames THEN 0 - 1
        ELSE IF frame_name = GF
        THEN IF sp.var_name \notin DOMAIN heap[frames[GF]] THEN 54 ELSE 0
        ELSE IF frames[frame_name] = NoFrame THEN 55
        ELSE IF sp.var_name \notin DOMAIN heap[frames[frame_name]] THEN 54
        ELSE 0

\* the conversions of a stored value on read (get_operand_values, lines 367-376)
ReadStored(stored) ==
    CASE stored.t = "bool" -> BoolV(stored.b = TRUE)
      [] stored.t = "int" ->
            \* parse_int(str(value)); the str of an int parses when there is one
            IF IsLong(stored) THEN stored ELSE IntV(parse_int(IntStr(stored.i)).n)
      [] stored.t = "string" -> StrV(DecodeEscapes(stored.s))
      [] OTHER -> stored

\* one round of the loop of get_operand_values: the value of one operand
OperandValue(symb) ==
    CASE symb.arg_type = "var" ->
            IF \E prefix \in {GF, LF, TF} : StartsWith(symb.value, prefix \o <<64>>)
            THEN LET sp == SplitAt(symb.value)
                     frame_name == frame_key(sp.frame_name)
                 IN  IF frames[frame_name] = NoFrame THEN [code |-> 55, v |-> None]
                     ELSE IF sp.var_name \notin DOMAIN heap[frames[frame_name]]
                          THEN [code |-> 54, v |-> None]
                     ELSE IF heap[frames[frame_name]][sp.var_name] = None
                          THEN [code |-> 56, v |-> None]
                     \* line 372: str() of the int raises, code -1
                     ELSE IF /\ heap[frames[frame_name]][sp.var_name].t = "int"
                             /\ StrRaisesValue(heap[frames[frame_name]][sp.var_name])
                          THEN [code |-> 0 - 1, v |-> None]
                     ELSE [code |-> 0,
                           v |-> ReadStored(heap[frames[frame_name]][sp.var_name])]
            ELSE [code |-> 53, v |-> None]
      [] symb.arg_type = "int" ->
            LET parsed == parse_value(symb.value)
            IN  IF parsed.ok THEN [code |-> 0, v |-> parsed.v]
                ELSE [code |-> 53, v |-> None]
      [] symb.arg_type = "bool" ->
            [code |-> 0, v |-> BoolV(LowerIs(symb.value, TxtTrue))]
      [] symb.arg_type = "string" ->
            [code |-> 0, v |-> StrV(DecodeEscapes(symb.value))]
      [] symb.arg_type = "nil" -> [code |-> 0, v |-> NilV]
      [] OTHER -> [code |-> 53, v |-> None]

\* the second operand of a call get_operand_values(symb, None)
NoArg == [arg_type |-> "None", value |-> <<>>]

\* the result of get_operand_values from the results of its rounds: the
\* first error wins, and a second operand None is skipped
OperandValues(r1, r2, symb2) ==
    IF r1.code # 0 THEN [code |-> r1.code, v1 |-> None, v2 |-> None]
    ELSE IF symb2 = NoArg THEN [code |-> 0, v1 |-> r1.v, v2 |-> None]
    ELSE IF r2.code # 0 THEN [code |-> r2.code, v1 |-> None, v2 |-> None]
    ELSE [code |-> 0, v1 |-> r1.v, v2 |-> r2.v]

\* IPPInterpreter.get_operand_values
get_operand_values(symb1, symb2) ==
    OperandValues(OperandValue(symb1), OperandValue(symb2), symb2)

\* a store_result that writes the name in every frame
store_result_EveryFrame(var, result) ==
    [r \in DOMAIN heap |-> Put(heap[r], SplitAt(var.value).var_name, result)]

\* IPPInterpreter.store_result: the heap after frames[frame_name][name] = result
store_result(var, result) ==
    LET sp == SplitAt(var.value)
        frame_name == frame_key(sp.frame_name)
    IN  [heap EXCEPT ![frames[frame_name]] = Put(@, sp.var_name, result)]

\* store_result returns 54 for a frame name that is no key of frames
store_code(var) ==
    IF frame_key(SplitAt(var.value).frame_name) \notin DOMAIN frames THEN 54 ELSE 0

-----------------------------------------------------------------------------
(* The module-level script: load, then IPPInterpreter.execute_instructions *)

\* the root of a well-formed source with the header the loader asks for
ProgramRoot == [well_formed |-> TRUE, tag |-> "program", language |-> "IPPcode23"]

\* IPPInterpreter.__init__ (lines 287-308), before any step, with the lines
\* of the --input file (line 1160 strips each on the right) and the lines
\* waiting on standard input
InitSource(header, lines, waiting) ==
    /\ root = header
    /\ input_lines = [k \in 1..Len(lines) |-> RStrip(lines[k], StrSpaces)]
    /\ input_line_index = 0
    /\ stdin = waiting
    /\ stdout = <<>>
    /\ phase = "load"
    /\ instructions = <<>>
    /\ labels = NoLabels
    /\ frames = [f \in {GF, LF, TF} |-> IF f = GF THEN GlobalFrame ELSE NoFrame]
    /\ heap = [r \in {GlobalFrame} |-> EmptyFrame]
    /\ frame_stack = <<>>
    /\ call_stack = <<>>
    /\ data_stack = <<>>
    /\ current_position = 0
    /\ executed_instructions_count = 0
    /\ instr_name = ""
    /\ error_code = 0

\* a well-formed source with the header asked for
InitMachineWith(lines, waiting) == InitSource(ProgramRoot, lines, waiting)

\* no --input file and nothing on standard input
InitMachine == InitMachineWith(<<>>, <<>>)

\* lines 1174-1187: a source that is not well-formed ends the script with 31,
\* a load error with its code, and the ValueError of an order that isdigit()
\* accepts and int() refuses with the status 1 of an uncaught exception
Load ==
    /\ phase = "load"
    /\ \E loaded \in {load_source(root, doc)} :
           /\ instructions' = loaded.instructions
           /\ labels' = loaded.labels
           /\ error_code' = IF loaded.error_code = 0 - 1 THEN 1 ELSE loaded.error_code
           /\ phase' = IF loaded.error_code # 0 THEN "done" ELSE "run"
    /\ UNCHANGED <<root, doc, stdout, machine, current_position, executed_instructions_count,
                   instr_name, input_lines, reader>>

\* the loop condition of execute_instructions holds (line 444)
Running ==
    /\ phase = "run"
    /\ current_position < Len(instructions)

\* instructions[current_position]
Cur == instructions[current_position + 1]

Dispatch(opcode) == Running /\ Cur.opcode = opcode

\* a loop that counts the failing instruction as executed
Finish_CountsFailure(code, position) ==
    /\ instr_name' = Cur.opcode
    /\ executed_instructions_count' = executed_instructions_count + 1
    /\ IF code # 0
       THEN /\ phase' = "done"
            /\ error_code' = code
            /\ current_position' = position
       ELSE /\ phase' = "run"
            /\ error_code' = 0
            /\ current_position' = position + 1
    /\ UNCHANGED <<root, doc, stdout, instructions, labels, input_lines>>

\* lines 451-457: what the loop does with the handler's code; position is
\* current_position as the handler left it, output what it has printed on
\* standard output
FinishWriting(code, position, output) ==
    /\ instr_name' = Cur.opcode
    /\ IF code # 0
       THEN /\ phase' = "done"
            /\ error_code' = code
            /\ current_position' = position
            /\ UNCHANGED executed_instructions_count
       ELSE /\ phase' = "run"
            /\ error_code' = 0
            /\ current_position' = position + 1
            /\ executed_instructions_count' = executed_instructions_count + 1
    /\ stdout' = stdout \o output
    /\ UNCHANGED <<root, doc, instructions, labels, input_lines>>

\* the same for a handler that prints nothing on standard output
Finish(code, position) == FinishWriting(code, position, <<>>)

\* line 461: the loop ends, the script exits with 0
Terminate ==
    /\ phase = "run"
    /\ current_position >= Len(instructions)
    /\ phase' = "done"
    /\ error_code' = 0
    /\ UNCHANGED <<root, doc, stdout, instructions, labels, machine, current_position,
                   executed_instructions_count, instr_name, input_lines, reader>>

-----------------------------------------------------------------------------
(* The handlers.                                                           *)

MoveExecute ==
    /\ Dispatch("MOVE")
    /\ UNCHANGED reader
    /\ \E var \in {Cur.args[1]}, defined \in {is_variable_defined(Cur.args[1].value)},
          got \in {get_operand_values(Cur.args[2], NoArg)} :
           IF defined # 0 THEN Finish(defined, current_position) /\ UNCHANGED machine
           ELSE IF got.code # 0 THEN Finish(got.code, current_position) /\ UNCHANGED machine
           ELSE /\ heap' = store_result(var, got.v1)
                /\ Finish(store_code(var), current_position)
                /\ UNCHANGED <<frames, frame_stack, call_stack, data_stack>>

CreateFrameExecute ==
    /\ Dispatch("CREATEFRAME")
    /\ UNCHANGED reader
    /\ LET new == NewRef(({frames[GF], frames[LF]} \cup Range(frame_stack)) \ {NoFrame})
       IN  /\ frames' = [frames EXCEPT ![TF] = new]
           /\ heap' = Collect([r \in DOMAIN heap \cup {new} |->
                                  IF r = new THEN EmptyFrame ELSE heap[r]],
                              frames', frame_stack)
    /\ Finish(0, current_position)
    /\ UNCHANGED <<frame_stack, call_stack, data_stack>>

\* PUSHFRAME that leaves LF as it was
PushFrameExecute_KeepsLF ==
    /\ Dispatch("PUSHFRAME")
    /\ UNCHANGED reader
    /\ IF frames[TF] = NoFrame
       THEN Finish(55, current_position) /\ UNCHANGED machine
       ELSE /\ frame_stack' = Append(frame_stack, frames[TF])
            /\ frames' = [frames EXCEPT ![TF] = NoFrame]
            /\ Finish(0, current_position)
            /\ UNCHANGED <<heap, call_stack, data_stack>>

PushFrameExecute ==
    /\ Dispatch("PUSHFRAME")
    /\ UNCHANGED reader
    /\ IF frames[TF] = NoFrame
       THEN Finish(55, current_position) /\ UNCHANGED machine
       ELSE /\ frame_stack' = Append(frame_stack, frames[TF])
            /\ frames' = [frames EXCEPT ![LF] = frames[TF], ![TF] = NoFrame]
            /\ Finish(0, current_position)
            /\ UNCHANGED <<heap, call_stack, data_stack>>

\* POPFRAME that leaves LF at the frame it has popped
PopFrameExecute_KeepsLF ==
    /\ Dispatch("POPFRAME")
    /\ UNCHANGED reader
    /\ IF frames[LF] = NoFrame
       THEN Finish(55, current_position) /\ UNCHANGED machine
       ELSE /\ frame_stack' = SubSeq(frame_stack, 1, Len(frame_stack) - 1)
            /\ frames' = [frames EXCEPT ![TF] = frames[LF]]
            /\ heap' = Collect(heap, frames', frame_stack')
            /\ Finish(0, current_position)
            /\ UNCHANGED <<call_stack, data_stack>>

\* POPFRAME that removes the oldest frame of the stack, not the newest
PopFrameExecute_Oldest ==
    /\ Dispatch("POPFRAME")
    /\ UNCHANGED reader
    /\ IF frames[LF] = NoFrame
       THEN Finish(55, current_position) /\ UNCHANGED machine
       ELSE /\ frame_stack' = SubSeq(frame_stack, 2, Len(frame_stack))
            /\ frames' = [frames EXCEPT
                              ![TF] = frame_stack[1],
                              ![LF] = IF Len(frame_stack') > 0
                                      THEN frame_stack'[Len(frame_stack')]
                                      ELSE NoFrame]
            /\ heap' = Collect(heap, frames', frame_stack')
            /\ Finish(0, current_position)
            /\ UNCHANGED <<call_stack, data_stack>>

PopFrameExecute ==
    /\ Dispatch("POPFRAME")
    /\ UNCHANGED reader
    /\ IF frames[LF] = NoFrame
       THEN Finish(55, current_position) /\ UNCHANGED machine
       ELSE /\ frame_stack' = SubSeq(frame_stack, 1, Len(frame_stack) - 1)
            /\ frames' = [frames EXCEPT
                              ![TF] = frames[LF],
                              ![LF] = IF Len(frame_stack') > 0
                                      THEN frame_stack'[Len(frame_stack')]
                                      ELSE NoFrame]
            /\ heap' = Collect(heap, frames', frame_stack')
            /\ Finish(0, current_position)
            /\ UNCHANGED <<call_stack, data_stack>>

\* DEFVAR that declares again a name the frame already has
\* (DefVar.execute unpacks variable.split('@'): any number of "@" but one raises)
DefVarExecute_Redeclares ==
    /\ Dispatch("DEFVAR")
    /\ UNCHANGED reader
    /\ LET sp == SplitAt(Cur.args[1].value)
       IN  IF CountAt(Cur.args[1].value) # 1
           THEN Finish(0 - 1, current_position) /\ UNCHANGED machine
           ELSE IF sp.frame_name \notin DOMAIN frames \/ frames[sp.frame_name] = NoFrame
           THEN Finish(55, current_position) /\ UNCHANGED machine
           ELSE /\ heap' = [heap EXCEPT ![frames[sp.frame_name]] = Put(@, sp.var_name, None)]
                /\ Finish(0, current_position)
                /\ UNCHANGED <<frames, frame_stack, call_stack, data_stack>>

DefVarExecute ==
    /\ Dispatch("DEFVAR")
    /\ UNCHANGED reader
    /\ LET sp == SplitAt(Cur.args[1].value)
       IN  IF CountAt(Cur.args[1].value) # 1
           THEN Finish(0 - 1, current_position) /\ UNCHANGED machine
           ELSE IF sp.frame_name \notin DOMAIN frames \/ frames[sp.frame_name] = NoFrame
           THEN Finish(55, current_position) /\ UNCHANGED machine
           ELSE IF sp.var_name \in DOMAIN heap[frames[sp.frame_name]]
           THEN Finish(52, current_position) /\ UNCHANGED machine
           ELSE /\ heap' = [heap EXCEPT ![frames[sp.frame_name]] = Put(@, sp.var_name, None)]
                /\ Finish(0, current_position)
                /\ UNCHANGED <<frames, frame_stack, call_stack, data_stack>>

\* a jump that takes the order of the label for its index
JumpTo_OrderAsIndex(label) ==
    IF label \notin DOMAIN labels
    THEN [code |-> 52, position |-> current_position]
    ELSE [code |-> 0, position |-> labels[label] - 1]

\* Jump.execute: the code, and current_position as it leaves it
JumpTo(label) ==
    IF label \notin DOMAIN labels
    THEN [code |-> 52, position |-> current_position]
    ELSE LET label_order == labels[label]
             found == {k \in 1..Len(instructions) : instructions[k].order = label_order}
         IN  [code |-> 0,
              position |-> IF found = {} THEN current_position
                           ELSE (CHOOSE k \in found : \A j \in found : k <= j) - 1]

JumpExecute ==
    /\ Dispatch("JUMP")
    /\ UNCHANGED reader
    /\ LET jump == JumpTo(Cur.args[1].value)
       IN  Finish(jump.code, jump.position)
    /\ UNCHANGED machine

LabelExecute ==
    /\ Dispatch("LABEL")
    /\ UNCHANGED reader
    /\ Finish(0, current_position)
    /\ UNCHANGED machine

\* CALL that saves the position after itself
CallExecute_PushesNext ==
    /\ Dispatch("CALL")
    /\ UNCHANGED reader
    /\ LET label == Cur.args[1].value
           jump == JumpTo(label)
       IN  IF label \notin DOMAIN labels
           THEN Finish(52, current_position) /\ UNCHANGED machine
           ELSE /\ call_stack' = Append(call_stack, current_position + 1)
                /\ Finish(jump.code, jump.position)
                /\ UNCHANGED <<frames, heap, frame_stack, data_stack>>

\* CALL that saves the order of the CALL, not its position
CallExecute_PushesOrder ==
    /\ Dispatch("CALL")
    /\ UNCHANGED reader
    /\ LET label == Cur.args[1].value
           jump == JumpTo(label)
       IN  IF label \notin DOMAIN labels
           THEN Finish(52, current_position) /\ UNCHANGED machine
           ELSE /\ call_stack' = Append(call_stack, Cur.order)
                /\ Finish(jump.code, jump.position)
                /\ UNCHANGED <<frames, heap, frame_stack, data_stack>>

CallExecute ==
    /\ Dispatch("CALL")
    /\ UNCHANGED reader
    /\ LET label == Cur.args[1].value
           jump == JumpTo(label)
       IN  IF label \notin DOMAIN labels
           THEN Finish(52, current_position) /\ UNCHANGED machine
           ELSE /\ call_stack' = Append(call_stack, current_position)
                /\ Finish(jump.code, jump.position)
                /\ UNCHANGED <<frames, heap, frame_stack, data_stack>>

\* RETURN that restarts the program when the call stack is empty
ReturnExecute_EmptyRestarts ==
    /\ Dispatch("RETURN")
    /\ UNCHANGED reader
    /\ IF Len(call_stack) = 0
       THEN Finish(0, -1) /\ UNCHANGED machine
       ELSE /\ call_stack' = SubSeq(call_stack, 1, Len(call_stack) - 1)
            /\ Finish(0, call_stack[Len(call_stack)])
            /\ UNCHANGED <<frames, heap, frame_stack, data_stack>>

ReturnExecute ==
    /\ Dispatch("RETURN")
    /\ UNCHANGED reader
    /\ IF Len(call_stack) = 0
       THEN Finish(56, current_position) /\ UNCHANGED machine
       ELSE /\ call_stack' = SubSeq(call_stack, 1, Len(call_stack) - 1)
            /\ Finish(0, call_stack[Len(call_stack)])
            /\ UNCHANGED <<frames, heap, frame_stack, data_stack>>

\* a code point that standard output does not encode.  Standard output is
\* UTF-8 with the error handler surrogateescape: of the surrogates
\* U+D800..U+DFFF it writes U+DC80..U+DCFF, as the bytes 0x80..0xFF, and
\* raises UnicodeEncodeError on the others
Unencodable(c) ==
    /\ 55296 <= c /\ c <= 57343
    /\ ~(56448 <= c /\ c <= 56575)

\* the text Write.execute prints for a value (lines 871-876)
output_value(v) ==
    IF v.t = "bool" THEN (IF v.b THEN TxtTrue ELSE TxtFalse)
    ELSE IF v.t = "nil" /\ v.s = TxtNil THEN <<>>
    ELSE IF v.t = "int" THEN IntStr(Num(v))
    ELSE v.s

WriteExecute ==
    /\ Dispatch("WRITE")
    /\ UNCHANGED <<machine, reader>>
    /\ \E got \in {get_operand_values(Cur.args[1], NoArg)} :
           IF got.code # 0 THEN Finish(got.code, current_position)
           \* line 876: str() of the int raises, code -1
           ELSE IF got.v1.t = "int" /\ StrRaisesValue(got.v1)
           THEN Finish(0 - 1, current_position)
           \* line 878: print raises UnicodeEncodeError, code -1
           ELSE IF \E k \in 1..Len(output_value(got.v1)) : Unencodable(output_value(got.v1)[k])
           THEN Finish(0 - 1, current_position)
           ELSE FinishWriting(0, current_position, output_value(got.v1))

\* Dprint.execute and Break.execute print on standard error, which is not
\* part of the state: the operand of DPRINT is printed as written, unresolved
DprintExecute ==
    /\ Dispatch("DPRINT")
    /\ UNCHANGED <<machine, reader>>
    /\ Finish(0, current_position)

\* Break.execute formats the three frames (lines 1132-1134): str() of an int
\* in one of them may raise, code -1
BreakExecute ==
    /\ Dispatch("BREAK")
    /\ UNCHANGED <<machine, reader>>
    /\ IF \E f \in {GF, LF, TF} :
             /\ frames[f] # NoFrame
             /\ \E name \in DOMAIN heap[frames[f]] :
                    /\ heap[frames[f]][name] # None
                    /\ heap[frames[f]][name].t = "int"
                    /\ StrRaisesValue(heap[frames[f]][name])
       THEN Finish(0 - 1, current_position)
       ELSE Finish(0, current_position)

PushsExecute ==
    /\ Dispatch("PUSHS")
    /\ UNCHANGED reader
    /\ \E got \in {get_operand_values(Cur.args[1], NoArg)} :
           IF got.code # 0 THEN Finish(got.code, current_position) /\ UNCHANGED machine
           ELSE /\ data_stack' = Append(data_stack, got.v1)
                /\ Finish(0, current_position)
                /\ UNCHANGED <<frames, heap, frame_stack, call_stack>>

\* POPS taking the oldest entry of the data stack
PopsExecute_Oldest ==
    /\ Dispatch("POPS")
    /\ UNCHANGED reader
    /\ \E var \in {Cur.args[1]}, defined \in {is_variable_defined(Cur.args[1].value)} :
           IF defined # 0 THEN Finish(defined, current_position) /\ UNCHANGED machine
           ELSE IF Len(data_stack) = 0 THEN Finish(56, current_position) /\ UNCHANGED machine
           ELSE /\ data_stack' = Tail(data_stack)
                /\ heap' = store_result(var, Head(data_stack))
                /\ Finish(store_code(var), current_position)
                /\ UNCHANGED <<frames, frame_stack, call_stack>>

\* POPS taking the top of the data stack before it checks the destination
PopsExecute_PopsFirst ==
    /\ Dispatch("POPS")
    /\ UNCHANGED reader
    /\ \E var \in {Cur.args[1]}, defined \in {is_variable_defined(Cur.args[1].value)} :
           IF Len(data_stack) = 0 THEN Finish(56, current_position) /\ UNCHANGED machine
           ELSE IF defined # 0
           THEN /\ data_stack' = SubSeq(data_stack, 1, Len(data_stack) - 1)
                /\ Finish(defined, current_position)
                /\ UNCHANGED <<frames, heap, frame_stack, call_stack>>
           ELSE /\ data_stack' = SubSeq(data_stack, 1, Len(data_stack) - 1)
                /\ heap' = store_result(var, data_stack[Len(data_stack)])
                /\ Finish(store_code(var), current_position)
                /\ UNCHANGED <<frames, frame_stack, call_stack>>

PopsExecute ==
    /\ Dispatch("POPS")
    /\ UNCHANGED reader
    /\ \E var \in {Cur.args[1]}, defined \in {is_variable_defined(Cur.args[1].value)} :
           IF defined # 0 THEN Finish(defined, current_position) /\ UNCHANGED machine
           ELSE IF Len(data_stack) = 0 THEN Finish(56, current_position) /\ UNCHANGED machine
           ELSE /\ data_stack' = SubSeq(data_stack, 1, Len(data_stack) - 1)
                /\ heap' = store_result(var, data_stack[Len(data_stack)])
                /\ Finish(store_code(var), current_position)
                /\ UNCHANGED <<frames, frame_stack, call_stack>>

ConcatExecute ==
    /\ Dispatch("CONCAT")
    /\ UNCHANGED reader
    /\ \E var \in {Cur.args[1]}, defined \in {is_variable_defined(Cur.args[1].value)},
          got \in {get_operand_values(Cur.args[2], Cur.args[3])} :
           IF defined # 0 THEN Finish(defined, current_position) /\ UNCHANGED machine
           ELSE IF got.code # 0 THEN Finish(got.code, current_position) /\ UNCHANGED machine
           ELSE IF got.v1.t # "string" \/ got.v2.t # "string"
           THEN Finish(53, current_position) /\ UNCHANGED machine
           ELSE /\ heap' = store_result(var, StrV(got.v1.s \o got.v2.s))
                /\ Finish(store_code(var), current_position)
                /\ UNCHANGED <<frames, frame_stack, call_stack, data_stack>>

StrlenExecute ==
    /\ Dispatch("STRLEN")
    /\ UNCHANGED reader
    /\ \E var \in {Cur.args[1]}, defined \in {is_variable_defined(Cur.args[1].value)},
          got \in {get_operand_values(Cur.args[2], NoArg)} :
           IF defined # 0 THEN Finish(defined, current_position) /\ UNCHANGED machine
           ELSE IF got.code # 0 THEN Finish(got.code, current_position) /\ UNCHANGED machine
           ELSE IF got.v1.t # "string"
           THEN Finish(53, current_position) /\ UNCHANGED machine
           ELSE /\ heap' = store_result(var, IntV(Len(got.v1.s)))
                /\ Finish(store_code(var), current_position)
                /\ UNCHANGED <<frames, frame_stack, call_stack, data_stack>>

\* Python's == on two values: the value of nil is the str 'nil'; a str equals
\* only a str; True and False compare as 1 and 0
PyNumber(v) == IF v.t = "bool" THEN (IF v.b THEN 1 ELSE 0) ELSE Num(v)

PyIsStr(v) == v.t \in {"string", "nil"}

PyEq(v1, v2) ==
    IF PyIsStr(v1) /\ PyIsStr(v2) THEN v1.s = v2.s
    ELSE IF PyIsStr(v1) \/ PyIsStr(v2) THEN FALSE
    \* a long int equals the same long int only
    ELSE IF IsLong(v1) \/ IsLong(v2) THEN v1 = v2
    ELSE PyNumber(v1) = PyNumber(v2)

\* Python's < on two str: by code point, a proper prefix is less
StrLess(s1, s2) ==
    \E k \in 1..(Len(s1) + 1) :
        /\ k <= Len(s2)
        /\ \A j \in 1..(k - 1) : s1[j] = s2[j]
        /\ k = Len(s1) + 1 \/ s1[k] < s2[k]

\* Python's < on two values of one type
PyLess(v1, v2) ==
    IF PyIsStr(v1) THEN StrLess(v1.s, v2.s) ELSE PyNumber(v1) < PyNumber(v2)

\* a division that rounds toward zero
Arith_TruncatingDivision(opcode, a, b) ==
    CASE opcode = "ADD" -> a + b
      [] opcode = "SUB" -> a - b
      [] opcode = "MUL" -> a * b
      [] opcode = "IDIV" ->
            IF (a < 0) = (b < 0) THEN a \div b ELSE 0 - ((0 - a) \div b)

\* the result of ADD, SUB, MUL and IDIV on two ints, b # 0 for IDIV; // is the
\* floor division
Arith(opcode, a, b) ==
    CASE opcode = "ADD" -> a + b
      [] opcode = "SUB" -> a - b
      [] opcode = "MUL" -> a * b
      [] opcode = "IDIV" -> a \div b

\* arithmetic that looks at the type of its first operand only
AddSubMulIdivExecute_FirstOperandOnly ==
    /\ Running
    /\ Cur.opcode \in {"ADD", "SUB", "MUL", "IDIV"}
    /\ UNCHANGED reader
    /\ \E var \in {Cur.args[1]}, defined \in {is_variable_defined(Cur.args[1].value)},
          got \in {get_operand_values(Cur.args[2], Cur.args[3])} :
           IF defined # 0 THEN Finish(defined, current_position) /\ UNCHANGED machine
           ELSE IF got.code # 0 THEN Finish(got.code, current_position) /\ UNCHANGED machine
           ELSE IF got.v1.t # "int"
           THEN Finish(53, current_position) /\ UNCHANGED machine
           ELSE IF Cur.opcode = "IDIV" /\ Within(got.v2, 0, 0)
           THEN Finish(57, current_position) /\ UNCHANGED machine
           ELSE /\ heap' = store_result(var, IntOf(Arith(Cur.opcode, Num(got.v1), Num(got.v2))))
                /\ Finish(store_code(var), current_position)
                /\ UNCHANGED <<frames, frame_stack, call_stack, data_stack>>

AddSubMulIdivExecute ==
    /\ Running
    /\ Cur.opcode \in {"ADD", "SUB", "MUL", "IDIV"}
    /\ UNCHANGED reader
    /\ \E var \in {Cur.args[1]}, defined \in {is_variable_defined(Cur.args[1].value)},
          got \in {get_operand_values(Cur.args[2], Cur.args[3])} :
           IF defined # 0 THEN Finish(defined, current_position) /\ UNCHANGED machine
           ELSE IF got.code # 0 THEN Finish(got.code, current_position) /\ UNCHANGED machine
           ELSE IF got.v1.t # "int" \/ got.v2.t # "int"
           THEN Finish(53, current_position) /\ UNCHANGED machine
           ELSE IF Cur.opcode = "IDIV" /\ Within(got.v2, 0, 0)
           THEN Finish(57, current_position) /\ UNCHANGED machine
           ELSE /\ heap' = store_result(var, IntOf(Arith(Cur.opcode, Num(got.v1), Num(got.v2))))
                /\ Finish(store_code(var), current_position)
                /\ UNCHANGED <<frames, frame_stack, call_stack, data_stack>>

\* an EQ for which nil equals nothing, not even nil
Relation_NilNeverEqual(opcode, v1, v2) ==
    CASE opcode = "EQ" ->
            IF v1.t = "nil" \/ v2.t = "nil" THEN FALSE ELSE PyEq(v1, v2)
      [] opcode = "LT" -> PyLess(v1, v2)
      [] opcode = "GT" -> PyLess(v2, v1)

\* the result of EQ, LT and GT on operands whose types are equal or one nil
Relation(opcode, v1, v2) ==
    CASE opcode = "EQ" ->
            IF v1.t = "nil" \/ v2.t = "nil" THEN v1.t = v2.t ELSE PyEq(v1, v2)
      [] opcode = "LT" -> PyLess(v1, v2)
      [] opcode = "GT" -> PyLess(v2, v1)

LtGtEqExecute ==
    /\ Running
    /\ Cur.opcode \in {"LT", "GT", "EQ"}
    /\ UNCHANGED reader
    /\ \E var \in {Cur.args[1]}, defined \in {is_variable_defined(Cur.args[1].value)},
          got \in {get_operand_values(Cur.args[2], Cur.args[3])} :
           IF defined # 0 THEN Finish(defined, current_position) /\ UNCHANGED machine
           ELSE IF got.code # 0 THEN Finish(got.code, current_position) /\ UNCHANGED machine
           ELSE IF got.v1.t # got.v2.t /\ got.v1.t # "nil" /\ got.v2.t # "nil"
           THEN Finish(53, current_position) /\ UNCHANGED machine
           ELSE IF Cur.opcode \in {"LT", "GT"} /\ (got.v1.t = "nil" \/ got.v2.t = "nil")
           THEN Finish(53, current_position) /\ UNCHANGED machine
           ELSE /\ heap' = store_result(var, BoolV(Relation(Cur.opcode, got.v1, got.v2)))
                /\ Finish(store_code(var), current_position)
                /\ UNCHANGED <<frames, frame_stack, call_stack, data_stack>>

\* the second operand of AND and OR; NOT has none
SecondOperand(instruction) ==
    IF instruction.opcode = "NOT" THEN NoArg ELSE instruction.args[3]

\* the result of AND, OR and NOT on bools
Logic(opcode, b1, b2) ==
    CASE opcode = "AND" -> b1 /\ b2
      [] opcode = "OR" -> b1 \/ b2
      [] opcode = "NOT" -> ~b1

AndOrNotExecute ==
    /\ Running
    /\ Cur.opcode \in {"AND", "OR", "NOT"}
    /\ UNCHANGED reader
    /\ \E var \in {Cur.args[1]}, symb1 \in {Cur.args[2]}, symb2 \in {SecondOperand(Cur)},
          defined \in {is_variable_defined(Cur.args[1].value)},
          got \in {get_operand_values(Cur.args[2], SecondOperand(Cur))} :
           IF defined # 0 THEN Finish(defined, current_position) /\ UNCHANGED machine
           ELSE IF \/ symb1.arg_type \notin {"bool", "var"}
                   \/ symb2 # NoArg /\ symb2.arg_type \notin {"bool", "var"}
           THEN Finish(53, current_position) /\ UNCHANGED machine
           ELSE IF got.code # 0 THEN Finish(got.code, current_position) /\ UNCHANGED machine
           ELSE IF got.v1.t # "bool" \/ (symb2 # NoArg /\ got.v2.t # "bool")
           THEN Finish(53, current_position) /\ UNCHANGED machine
           ELSE /\ heap' = store_result(var, BoolV(Logic(Cur.opcode, got.v1.b, got.v2.b)))
                /\ Finish(store_code(var), current_position)
                /\ UNCHANGED <<frames, frame_stack, call_stack, data_stack>>

\* a conditional jump that resolves its operands before it looks up the label
JumpifExecute_OperandsFirst ==
    /\ Running
    /\ Cur.opcode \in {"JUMPIFEQ", "JUMPIFNEQ"}
    /\ UNCHANGED reader
    /\ \E label \in {Cur.args[1].value},
          got \in {get_operand_values(Cur.args[2], Cur.args[3])} :
           IF got.code # 0 THEN Finish(got.code, current_position)
           ELSE IF label \notin DOMAIN labels THEN Finish(52, current_position)
           ELSE IF got.v1.t # got.v2.t /\ got.v1.t # "nil" /\ got.v2.t # "nil"
           THEN Finish(53, current_position)
           ELSE IF PyEq(got.v1, got.v2) <=> Cur.opcode = "JUMPIFEQ"
           THEN Finish(JumpTo(label).code, JumpTo(label).position)
           ELSE Finish(0, current_position)
    /\ UNCHANGED machine

\* Jumpif.execute: the label, then the operands, then the comparison of the
\* values when the types are equal or one of them is nil
JumpifExecute ==
    /\ Running
    /\ Cur.opcode \in {"JUMPIFEQ", "JUMPIFNEQ"}
    /\ UNCHANGED reader
    /\ \E label \in {Cur.args[1].value},
          got \in {get_operand_values(Cur.args[2], Cur.args[3])} :
           IF label \notin DOMAIN labels THEN Finish(52, current_position)
           ELSE IF got.code # 0 THEN Finish(got.code, current_position)
           ELSE IF got.v1.t # got.v2.t /\ got.v1.t # "nil" /\ got.v2.t # "nil"
           THEN Finish(53, current_position)
           ELSE IF PyEq(got.v1, got.v2) <=> Cur.opcode = "JUMPIFEQ"
           THEN Finish(JumpTo(label).code, JumpTo(label).position)
           ELSE Finish(0, current_position)
    /\ UNCHANGED machine

\* Exit.execute: sys.exit(n) ends the process inside the handler
ExitExecute ==
    /\ Dispatch("EXIT")
    /\ UNCHANGED reader
    /\ \E got \in {get_operand_values(Cur.args[1], NoArg)} :
           IF got.code # 0 THEN Finish(got.code, current_position)
           ELSE IF got.v1.t # "int" THEN Finish(53, current_position)
           ELSE IF Within(got.v1, 0, 49)
           THEN /\ phase' = "exit"
                /\ error_code' = got.v1.i
                /\ instr_name' = Cur.opcode
                /\ UNCHANGED <<root, doc, stdout, instructions, labels, current_position,
                               executed_instructions_count, input_lines>>
           \* line 1115: the message holds the int; str() of it raises, code -1
           ELSE IF StrRaisesValue(got.v1) THEN Finish(0 - 1, current_position)
           ELSE Finish(57, current_position)
    /\ UNCHANGED machine

\* the largest argument chr() accepts
MaxCodePoint == 1114111

\* Int2Char.execute: chr(n) raises ValueError outside 0..0x10FFFF, which the
\* handler turns into 58 (lines 777-780), and OverflowError outside the int
\* of C, which it does not catch: the loop returns -1 (line 459)
Int2CharExecute ==
    /\ Dispatch("INT2CHAR")
    /\ UNCHANGED reader
    /\ \E var \in {Cur.args[1]}, defined \in {is_variable_defined(Cur.args[1].value)},
          got \in {get_operand_values(Cur.args[2], NoArg)} :
           IF defined # 0 THEN Finish(defined, current_position) /\ UNCHANGED machine
           ELSE IF got.code # 0 THEN Finish(got.code, current_position) /\ UNCHANGED machine
           ELSE IF got.v1.t # "int" THEN Finish(53, current_position) /\ UNCHANGED machine
           ELSE IF ~Within(got.v1, MinCInt, MaxCInt)
           THEN Finish(0 - 1, current_position) /\ UNCHANGED machine
           ELSE IF ~Within(got.v1, 0, MaxCodePoint)
           THEN Finish(58, current_position) /\ UNCHANGED machine
           ELSE /\ heap' = store_result(var, StrV(<<got.v1.i>>))
                /\ Finish(store_code(var), current_position)
                /\ UNCHANGED <<frames, frame_stack, call_stack, data_stack>>

\* Stri2Int.execute
Stri2IntExecute ==
    /\ Dispatch("STRI2INT")
    /\ UNCHANGED reader
    /\ \E var \in {Cur.args[1]}, defined \in {is_variable_defined(Cur.args[1].value)},
          got \in {get_operand_values(Cur.args[2], Cur.args[3])} :
           IF defined # 0 THEN Finish(defined, current_position) /\ UNCHANGED machine
           ELSE IF got.code # 0 THEN Finish(got.code, current_position) /\ UNCHANGED machine
           ELSE IF got.v1.t # "string" \/ got.v2.t # "int"
           THEN Finish(53, current_position) /\ UNCHANGED machine
           ELSE IF ~Within(got.v2, 0, Len(got.v1.s) - 1)
           THEN Finish(58, current_position) /\ UNCHANGED machine
           ELSE /\ heap' = store_result(var, IntV(got.v1.s[got.v2.i + 1]))
                /\ Finish(store_code(var), current_position)
                /\ UNCHANGED <<frames, frame_stack, call_stack, data_stack>>

\* Getchar.execute
GetcharExecute ==
    /\ Dispatch("GETCHAR")
    /\ UNCHANGED reader
    /\ \E var \in {Cur.args[1]}, defined \in {is_variable_defined(Cur.args[1].value)},
          got \in {get_operand_values(Cur.args[2], Cur.args[3])} :
           IF defined # 0 THEN Finish(defined, current_position) /\ UNCHANGED machine
           ELSE IF got.code # 0 THEN Finish(got.code, current_position) /\ UNCHANGED machine
           ELSE IF got.v1.t # "string" \/ got.v2.t # "int"
           THEN Finish(53, current_position) /\ UNCHANGED machine
           ELSE IF ~Within(got.v2, 0, Len(got.v1.s) - 1)
           THEN Finish(58, current_position) /\ UNCHANGED machine
           ELSE /\ heap' = store_result(var, StrV(<<got.v1.s[got.v2.i + 1]>>))
                /\ Finish(store_code(var), current_position)
                /\ UNCHANGED <<frames, frame_stack, call_stack, data_stack>>

\* var_value[:i] + c[0] + var_value[i + 1:]
Replaced(var_value, i, c) ==
    SubSeq(var_value, 1, i) \o <<c[1]>> \o SubSeq(var_value, i + 2, Len(var_value))

\* Setchar.execute: the variable is resolved and its type checked before the
\* two operands are resolved
SetcharExecute ==
    /\ Dispatch("SETCHAR")
    /\ UNCHANGED reader
    /\ \E var \in {Cur.args[1]}, defined \in {is_variable_defined(Cur.args[1].value)},
          held \in {get_operand_values(Cur.args[1], NoArg)},
          got \in {get_operand_values(Cur.args[2], Cur.args[3])} :
           IF defined # 0 THEN Finish(defined, current_position) /\ UNCHANGED machine
           ELSE IF held.code # 0 THEN Finish(held.code, current_position) /\ UNCHANGED machine
           ELSE IF held.v1.t # "string" THEN Finish(53, current_position) /\ UNCHANGED machine
           ELSE IF got.code # 0 THEN Finish(got.code, current_position) /\ UNCHANGED machine
           ELSE IF got.v1.t # "int" \/ got.v2.t # "string"
           THEN Finish(53, current_position) /\ UNCHANGED machine
           ELSE IF Len(got.v2.s) = 0 THEN Finish(58, current_position) /\ UNCHANGED machine
           ELSE IF ~Within(got.v1, 0, Len(held.v1.s) - 1)
           THEN Finish(58, current_position) /\ UNCHANGED machine
           ELSE /\ heap' = store_result(var, StrV(Replaced(held.v1.s, got.v1.i, got.v2.s)))
                /\ Finish(store_code(var), current_position)
                /\ UNCHANGED <<frames, frame_stack, call_stack, data_stack>>

\* the str that names a type
TypeText(t) ==
    CASE t = "int" -> TxtInt
      [] t = "bool" -> TxtBool
      [] t = "string" -> TxtString
      [] t = "nil" -> TxtNil
      [] t = "label" -> <<108, 97, 98, 101, 108>>
      [] t = "type" -> <<116, 121, 112, 101>>

\* Type.execute: a variable is resolved, and 56 gives the empty string; any
\* other operand gives the type attribute of the argument
TypeExecute ==
    /\ Dispatch("TYPE")
    /\ UNCHANGED reader
    /\ \E var \in {Cur.args[1]}, symb \in {Cur.args[2]},
          defined \in {is_variable_defined(Cur.args[1].value)},
          got \in {get_operand_values(Cur.args[2], NoArg)} :
           IF defined # 0 THEN Finish(defined, current_position) /\ UNCHANGED machine
           ELSE IF symb.arg_type = "var" /\ got.code \notin {0, 56}
           THEN Finish(got.code, current_position) /\ UNCHANGED machine
           ELSE /\ heap' = store_result(var,
                               StrV(IF symb.arg_type # "var" THEN TypeText(symb.arg_type)
                                    ELSE IF got.code = 56 THEN <<>>
                                    ELSE TypeText(got.v1.t)))
                /\ Finish(store_code(var), current_position)
                /\ UNCHANGED <<frames, frame_stack, call_stack, data_stack>>

\* lines 302-307: has_input is set once, from the input lines given
has_input == Len(input_lines) # 0

\* Read.execute, lines 838-847: what is stored for a line, by the type
\* argument; None when the argument is none of string, bool and int, for
\* which nothing is stored
ReadValue(type, input_value) ==
    IF LowerIs(type, TxtString) THEN StrV(input_value)
    ELSE IF LowerIs(type, TxtBool) THEN BoolV(LowerIs(input_value, TxtTrue))
    ELSE IF LowerIs(type, TxtInt)
    THEN IF parse_value(input_value).ok THEN parse_value(input_value).v ELSE NilV
    ELSE None

\* the heap after the store of lines 838-847
ReadStore(var, type, input_value) ==
    IF ReadValue(type, input_value) = None THEN heap
    ELSE store_result(var, ReadValue(type, input_value))

\* Read.execute: the next input line while there is one, the empty line
\* when no lines were given, else input(), whose EOFError stores nil
ReadExecute ==
    /\ Dispatch("READ")
    /\ \E var \in {Cur.args[1]}, type \in {Cur.args[2].value},
          defined \in {is_variable_defined(Cur.args[1].value)} :
           IF defined # 0
           THEN Finish(defined, current_position) /\ UNCHANGED <<machine, reader>>
           ELSE /\ IF input_line_index < Len(input_lines) \/ ~has_input
                   THEN /\ \E input_value \in {IF has_input
                                                THEN input_lines[input_line_index + 1]
                                                ELSE <<>>} :
                               heap' = ReadStore(var, type, input_value)
                        /\ input_line_index' = input_line_index + 1
                        /\ UNCHANGED stdin
                   ELSE IF stdin = <<>>
                   THEN heap' = store_result(var, NilV) /\ UNCHANGED reader
                   ELSE /\ heap' = ReadStore(var, type, Head(stdin))
                        /\ stdin' = Tail(stdin)
                        /\ UNCHANGED input_line_index
                /\ Finish(store_code(var), current_position)
                /\ UNCHANGED <<frames, frame_stack, call_stack, data_stack>>

\* lines 1190-1191: the script prints an error when execute_instructions
\* has returned a code other than 0
ErrorReported == phase = "done" /\ instr_name # "" /\ error_code # 0

\* line 1191: the order the script prints with an error
ReportedOrder == current_position + 1

\* line 1193: sys.exit(error_code); the status of a process is its low byte
ExitStatus == error_code % 256

-----------------------------------------------------------------------------
(* The documents the specifications start from.                            *)

Arg(arg_type, value) == [arg_type |-> arg_type, value |-> value]
Var(frame_name, name) == Arg("var", frame_name \o <<64>> \o name)
Body(opcode, args) == [opcode |-> opcode, args |-> args]

\* all sequences over pool of length at most n
Seqs(pool, n) == UNION {[1..m -> pool] : m \in 0..n}

\* The loop of execute_instructions has no limit on the instructions it
\* executes, and a program that jumps backwards may run without end.  The
\* specifications start from the programs that end by themselves: those that
\* take at most MaxJumps jumps, calls and returns whatever their conditional
\* jumps decide and whether or not their other instructions fail.  bodies are
\* the instructions in the order of execution, position and calls stand for
\* current_position and call_stack.
LabelAt(bodies, name) ==
    {k \in 1..Len(bodies) :
        bodies[k].opcode = "LABEL" /\ bodies[k].args[1].value = name}

RECURSIVE EndsWithin(_, _, _, _)
EndsWithin(bodies, position, calls, jumps) ==
    IF position >= Len(bodies) THEN TRUE
    ELSE LET body == bodies[position + 1]
             found == LabelAt(bodies, body.args[1].value)
             after == CHOOSE k \in found : TRUE
         IN  IF body.opcode \in {"JUMP", "CALL", "JUMPIFEQ", "JUMPIFNEQ"}
             THEN IF found = {} THEN TRUE
                  ELSE /\ jumps > 0
                       /\ EndsWithin(bodies, after,
                                     IF body.opcode = "CALL" THEN Append(calls, position)
                                     ELSE calls,
                                     jumps - 1)
                       /\ body.opcode \in {"JUMPIFEQ", "JUMPIFNEQ"}
                              => EndsWithin(bodies, position + 1, calls, jumps)
             ELSE IF body.opcode = "RETURN"
             THEN IF calls = <<>> THEN TRUE
                  ELSE /\ jumps > 0
                       /\ EndsWithin(bodies, calls[Len(calls)] + 1, Front(calls), jumps - 1)
             ELSE EndsWithin(bodies, position + 1, calls, jumps)

\* a program with a label defined twice is not run (52 on load)
Ends(bodies) ==
    IF \E k \in 1..Len(bodies) :
          bodies[k].opcode = "LABEL" /\ Cardinality(LabelAt(bodies, bodies[k].args[1].value)) > 1
    THEN TRUE
    ELSE EndsWithin(bodies, 0, <<>>, MaxJumps)

\* the same for a document: the bodies of its instructions as loaded
EndsLoaded(loaded) ==
    loaded.error_code = 0 =>
      Ends([k \in 1..Len(loaded.instructions) |->
                [opcode |-> loaded.instructions[k].opcode,
                 args |-> loaded.instructions[k].args]])

\* the elements with the bodies given, in document order, the k-th with order ord[k]
ArgTags == <<"arg1", "arg2", "arg3">>

\* <instruction order= opcode=> with the children arg1..argN of the body
Element(order, body) ==
    [tag |-> "instruction", order |-> order, opcode |-> OpcodeText[body.opcode],
     args |-> [k \in 1..Len(body.args) |->
                  [tag |-> ArgTags[k], arg_type |-> body.args[k].arg_type,
                   value |-> body.args[k].value]]]

Elements(bodies, ord) ==
    [k \in 1..Len(bodies) |-> Element(IntStr(ord[k]), bodies[k])]

\* orders 2, 4, 6, ... : ascending in document order, with gaps
Spaced(bodies) == Elements(bodies, [k \in 1..Len(bodies) |-> 2 * k])

\* the names v, l and the literals int@1
NameV == <<118>>
NameL == <<108>>
One == Arg("int", <<49>>)

\* frame specification: a prefix of frame instructions, then at most one probe
FrameOps ==
    {Body("CREATEFRAME", <<>>), Body("PUSHFRAME", <<>>), Body("POPFRAME", <<>>),
     Body("DEFVAR", <<Var(TF, NameV)>>)}

FrameProbes ==
    {Body("POPFRAME", <<>>)}
        \cup {Body("DEFVAR", <<Var(f, NameV)>>) : f \in {GF, LF}}
        \cup {Body("PUSHS", <<Var(f, NameV)>>) : f \in {GF, LF, TF}}
        \cup {Body("MOVE", <<Var(f, NameV), One>>) : f \in {LF, TF}}

\* what runs before the prefix: nothing, or a push on the data stack and a call
FramePreambles ==
    {<<>>,
     <<Body("PUSHS", <<One>>), Body("CALL", <<Arg("label", NameL)>>),
       Body("LABEL", <<Arg("label", NameL)>>)>>}

InitFrame ==
    /\ \E pre \in FramePreambles, ops \in Seqs(FrameOps, MaxFrameLen),
          probe \in Seqs(FrameProbes, 1) :
            doc = Spaced(pre \o ops \o probe)
    /\ InitMachine

NextFrame ==
    \/ Load
    \/ Terminate
    \/ CreateFrameExecute
    \/ PushFrameExecute
    \/ PopFrameExecute
    \/ DefVarExecute
    \/ MoveExecute
    \/ PushsExecute
    \/ CallExecute

SpecFrame == InitFrame /\ [][NextFrame]_vars

\* loader specification: every document of at most MaxDocLen elements over
\* these bodies, with any orders 0..MaxOrder (0: an invalid order attribute)
NameA == <<97>>
NameB == <<98>>
NameE == <<101>>

LoadPool ==
    {Body("LABEL", <<Arg("label", NameA)>>), Body("LABEL", <<Arg("label", NameB)>>),
     Body("JUMP", <<Arg("label", NameA)>>)}

\* the order attributes: 0..MaxOrder in ASCII digits, the Arabic-Indic digit
\* three (isdigit, and int gives 3) and superscript two (isdigit, int raises)
OrderPool == {IntStr(n) : n \in 0..MaxOrder} \cup {<<1635>>, <<178>>}

\* the roots: the header asked for, a source that does not parse, another
\* tag, another language
RootPool ==
    {ProgramRoot, [ProgramRoot EXCEPT !.well_formed = FALSE],
     [ProgramRoot EXCEPT !.tag = "code"], [ProgramRoot EXCEPT !.language = "IPPcode22"]}

\* the order attributes of a document of n elements: every one of OrderPool
\* for at most MaxSpecialLen elements, the ASCII numbers for more
Orders(n) == IF n <= MaxSpecialLen THEN OrderPool ELSE {IntStr(m) : m \in 0..MaxOrder}

\* every document under the root asked for whose program ends (EndsLoaded),
\* the documents of at most one element under the other roots
InitLoad ==
    /\ \E bodies \in Seqs(LoadPool, MaxDocLen) :
          \E ord \in [1..Len(bodies) -> Orders(Len(bodies))] :
              doc \in {d \in {[k \in 1..Len(bodies) |-> Element(ord[k], bodies[k])]} :
                          EndsLoaded(load_source(ProgramRoot, d))}
    /\ \E r \in RootPool :
          /\ r # ProgramRoot => Len(doc) <= 1
          /\ InitSource(r, <<>>, <<>>)

NextLoad ==
    \/ Load
    \/ Terminate
    \/ LabelExecute
    \/ JumpExecute

SpecLoad == InitLoad /\ [][NextLoad]_vars

\* control-flow specification: every program of at most MaxFlowLen instructions
\* over these bodies, and four longer scenarios
FlowPool ==
    {Body("LABEL", <<Arg("label", NameA)>>), Body("LABEL", <<Arg("label", NameB)>>),
     Body("JUMP", <<Arg("label", NameA)>>), Body("CALL", <<Arg("label", NameA)>>),
     Body("CALL", <<Arg("label", NameB)>>), Body("RETURN", <<>>)}

\* scenario S5 without its WRITEs: JUMP e; LABEL a; RETURN; LABEL e; CALL a
ScenarioS5 ==
    <<Body("JUMP", <<Arg("label", NameE)>>), Body("LABEL", <<Arg("label", NameA)>>),
      Body("RETURN", <<>>), Body("LABEL", <<Arg("label", NameE)>>),
      Body("CALL", <<Arg("label", NameA)>>)>>

\* a call inside a call:
\* CALL a; JUMP e; LABEL a; CALL b; RETURN; LABEL b; RETURN; LABEL e
ScenarioNested ==
    <<Body("CALL", <<Arg("label", NameA)>>), Body("JUMP", <<Arg("label", NameE)>>),
      Body("LABEL", <<Arg("label", NameA)>>), Body("CALL", <<Arg("label", NameB)>>),
      Body("RETURN", <<>>), Body("LABEL", <<Arg("label", NameB)>>),
      Body("RETURN", <<>>), Body("LABEL", <<Arg("label", NameE)>>)>>

\* a jump back that is left by a RETURN, and a jump to the last instruction:
\* CALL b; JUMP e; LABEL a; RETURN; LABEL b; JUMP a; LABEL e
ScenarioBack ==
    <<Body("CALL", <<Arg("label", NameB)>>), Body("JUMP", <<Arg("label", NameE)>>),
      Body("LABEL", <<Arg("label", NameA)>>), Body("RETURN", <<>>),
      Body("LABEL", <<Arg("label", NameB)>>), Body("JUMP", <<Arg("label", NameA)>>),
      Body("LABEL", <<Arg("label", NameE)>>)>>

\* a jump back whose RETURN is reached again, with no call left:
\* CALL b; LABEL a; RETURN; LABEL b; JUMP a
ScenarioBackAgain ==
    <<Body("CALL", <<Arg("label", NameB)>>), Body("LABEL", <<Arg("label", NameA)>>),
      Body("RETURN", <<>>), Body("LABEL", <<Arg("label", NameB)>>),
      Body("JUMP", <<Arg("label", NameA)>>)>>

\* of these programs, the ones that end (Ends)
InitFlow ==
    /\ \E bodies \in {b \in Seqs(FlowPool, MaxFlowLen)
                               \cup {ScenarioS5, ScenarioNested, ScenarioBack,
                                     ScenarioBackAgain} :
                           Ends(b)} :
          doc = Spaced(bodies)
    /\ InitMachine

NextFlow ==
    \/ Load
    \/ Terminate
    \/ LabelExecute
    \/ JumpExecute
    \/ CallExecute
    \/ ReturnExecute

SpecFlow == InitFlow /\ [][NextFlow]_vars

\* data specification: DEFVAR GF@v; DEFVAR GF@w; then every program of at most
\* MaxDataLen instructions over these bodies
NameW == <<119>>

\* int@0x1F, bool@true, nil@nil, string@\092065 and the variable GF@v
DataSymbs ==
    {Arg("int", <<48, 120, 49, 70>>), Arg("bool", TxtTrue), Arg("nil", TxtNil),
     Arg("string", <<92, 48, 57, 50, 48, 54, 53>>), Var(GF, NameV)}

\* string@\092, string@065 and the empty string
DataStrings ==
    {Arg("string", <<92, 48, 57, 50>>), Arg("string", <<48, 54, 53>>), Arg("string", <<>>)}

DataPool ==
    {Body("PUSHS", <<x>>) : x \in DataSymbs \cup {Var(TF, NameV)}}
        \cup {Body("POPS", <<Var(GF, n)>>) : n \in {NameV, NameW}}
        \cup {Body("MOVE", <<Var(GF, NameV), x>>) : x \in DataSymbs}
        \cup {Body("CONCAT", <<Var(GF, NameV), a, b>>) : a \in DataStrings, b \in DataStrings}
        \cup {Body("STRLEN", <<Var(GF, n), Var(GF, NameV)>>) : n \in {NameV, NameW}}

DataPreamble ==
    <<Body("DEFVAR", <<Var(GF, NameV)>>), Body("DEFVAR", <<Var(GF, NameW)>>)>>

InitData ==
    /\ \E bodies \in Seqs(DataPool, MaxDataLen) : doc = Spaced(DataPreamble \o bodies)
    /\ InitMachine

NextData ==
    \/ Load
    \/ Terminate
    \/ DefVarExecute
    \/ PushsExecute
    \/ PopsExecute
    \/ MoveExecute
    \/ ConcatExecute
    \/ StrlenExecute

SpecData == InitData /\ [][NextData]_vars

\* operation specification: DEFVAR GF@v; DEFVAR GF@w; MOVE GF@w string@old; at
\* most MaxMoves MOVEs to GF@v; then one arithmetic, relational or logical
\* instruction with the destination GF@w
Old == Arg("string", <<111, 108, 100>>)

\* int@7, int@-2, int@0, bool@true, string@ab, nil@nil and the variable GF@v
OpsSymbs ==
    {Arg("int", <<55>>), Arg("int", <<45, 50>>), Arg("int", <<48>>), Arg("bool", TxtTrue),
     Arg("string", <<97, 98>>), Arg("nil", TxtNil), Var(GF, NameV)}

\* MOVE GF@v x for x among int@-7, int@2, bool@false, string@b, nil@nil
OpsMoves ==
    {Body("MOVE", <<Var(GF, NameV), x>>) :
        x \in {Arg("int", <<45, 55>>), Arg("int", <<50>>), Arg("bool", TxtFalse),
               Arg("string", <<98>>), Arg("nil", TxtNil)}}

OpsPreamble ==
    <<Body("DEFVAR", <<Var(GF, NameV)>>), Body("DEFVAR", <<Var(GF, NameW)>>),
      Body("MOVE", <<Var(GF, NameW), Old>>)>>

OpsPool ==
    {Body(opcode, <<Var(GF, NameW), a, b>>) :
        opcode \in {"ADD", "SUB", "MUL", "IDIV", "LT", "GT", "EQ", "AND", "OR"},
        a \in OpsSymbs, b \in OpsSymbs}
        \cup {Body("NOT", <<Var(GF, NameW), a>>) : a \in OpsSymbs}

InitOps ==
    /\ \E moves \in Seqs(OpsMoves, MaxMoves), op \in OpsPool :
          doc = Spaced(OpsPreamble \o moves \o <<op>>)
    /\ InitMachine

NextOps ==
    \/ Load
    \/ Terminate
    \/ DefVarExecute
    \/ MoveExecute
    \/ AddSubMulIdivExecute
    \/ LtGtEqExecute
    \/ AndOrNotExecute

SpecOps == InitOps /\ [][NextOps]_vars

\* jump specification: DEFVAR GF@v; at most MaxMoves MOVEs to GF@v; one jump
\* instruction naming the label l or the undefined label u; DEFVAR GF@w;
\* LABEL l
NameU == <<117>>

\* int@1, bool@true, string@nil, string@a, nil@nil, GF@v and the absent TF@v
JumpSymbs ==
    {Arg("int", <<49>>), Arg("bool", TxtTrue), Arg("string", TxtNil), Arg("string", <<97>>),
     Arg("nil", TxtNil), Var(GF, NameV), Var(TF, NameV)}

JumpPool ==
    {Body(opcode, <<Arg("label", l), a, b>>) :
        opcode \in {"JUMPIFEQ", "JUMPIFNEQ"}, l \in {NameL, NameU},
        a \in JumpSymbs, b \in JumpSymbs}
        \cup {Body(opcode, <<Arg("label", l)>>) :
                opcode \in {"JUMP", "CALL"}, l \in {NameL, NameU}}

InitJump ==
    /\ \E moves \in Seqs(OpsMoves, MaxMoves), jump \in JumpPool :
          doc = Spaced(<<Body("DEFVAR", <<Var(GF, NameV)>>)>> \o moves \o
                       <<jump, Body("DEFVAR", <<Var(GF, NameW)>>),
                         Body("LABEL", <<Arg("label", NameL)>>)>>)
    /\ InitMachine

NextJump ==
    \/ Load
    \/ Terminate
    \/ DefVarExecute
    \/ MoveExecute
    \/ JumpExecute
    \/ CallExecute
    \/ JumpifExecute
    \/ LabelExecute

SpecJump == InitJump /\ [][NextJump]_vars

\* stack specification: DEFVAR GF@v; then every program of at most MaxStackLen
\* instructions over these bodies: pushes of an int and of a string, POPS to
\* the declared GF@v and to the undeclared GF@w, CALL l, RETURN and LABEL l
StackPool ==
    {Body("PUSHS", <<Arg("int", <<49>>)>>), Body("PUSHS", <<Arg("string", <<97>>)>>),
     Body("POPS", <<Var(GF, NameV)>>), Body("POPS", <<Var(GF, NameW)>>),
     Body("CALL", <<Arg("label", NameL)>>), Body("RETURN", <<>>),
     Body("LABEL", <<Arg("label", NameL)>>)}

\* of these programs, the ones that end (Ends)
InitStack ==
    /\ \E bodies \in {b \in Seqs(StackPool, MaxStackLen) :
                           Ends(<<Body("DEFVAR", <<Var(GF, NameV)>>)>> \o b)} :
          doc = Spaced(<<Body("DEFVAR", <<Var(GF, NameV)>>)>> \o bodies)
    /\ InitMachine

NextStack ==
    \/ Load
    \/ Terminate
    \/ DefVarExecute
    \/ PushsExecute
    \/ PopsExecute
    \/ CallExecute
    \/ ReturnExecute
    \/ LabelExecute

SpecStack == InitStack /\ [][NextStack]_vars

\* dispatcher specification: every program of at most MaxDispatchLen
\* instructions over these bodies: EXIT of int@0, int@7, int@49, int@50,
\* int@-1, bool@true, GF@v and the absent TF@v; DEFVAR GF@v; MOVE GF@v int@7;
\* MOVE string@a int@1, whose destination is no variable; RETURN; JUMP u to
\* an undefined label; LABEL l; JUMP l; and ScenarioLong and ScenarioHuge
ExitSymbs ==
    {Arg("int", <<48>>), Arg("int", <<55>>), Arg("int", <<52, 57>>), Arg("int", <<53, 48>>),
     Arg("int", <<45, 49>>), Arg("bool", TxtTrue), Var(GF, NameV), Var(TF, NameV)}

DispatchPool ==
    {Body("EXIT", <<x>>) : x \in ExitSymbs}
        \cup {Body("DEFVAR", <<Var(GF, NameV)>>),
              Body("MOVE", <<Var(GF, NameV), Arg("int", <<55>>)>>),
              Body("MOVE", <<Arg("string", <<97>>), One>>),
              Body("RETURN", <<>>),
              Body("JUMP", <<Arg("label", NameU)>>),
              Body("LABEL", <<Arg("label", NameL)>>),
              Body("JUMP", <<Arg("label", NameL)>>)}

\* int@0x100000000, 2^32: an int beyond the int of C
LongInt == Arg("int", <<48, 120, 49, 48, 48, 48, 48, 48, 48, 48, 48>>)

\* int@0x1 and MaxStrHex zeros after it, 16^MaxStrHex: an int of more than
\* MaxStrDigits digits
HugeInt == Arg("int", <<48, 120, 49>> \o [k \in 1..MaxStrHex |-> 48])

\* DEFVAR GF@v; MOVE GF@v int@0x100000000; EXIT GF@v
ScenarioLong ==
    <<Body("DEFVAR", <<Var(GF, NameV)>>),
      Body("MOVE", <<Var(GF, NameV), LongInt>>),
      Body("EXIT", <<Var(GF, NameV)>>)>>

\* EXIT of the int of more than MaxStrDigits digits; LABEL l
ScenarioHuge ==
    <<Body("EXIT", <<HugeInt>>), Body("LABEL", <<Arg("label", NameL)>>)>>

\* of these programs, the ones that end (Ends), and the two scenarios
InitDispatch ==
    /\ \E bodies \in {b \in Seqs(DispatchPool, MaxDispatchLen)
                               \cup {ScenarioLong, ScenarioHuge} : Ends(b)} :
          doc = Spaced(bodies)
    /\ InitMachine

NextDispatch ==
    \/ Load
    \/ Terminate
    \/ DefVarExecute
    \/ MoveExecute
    \/ ExitExecute
    \/ ReturnExecute
    \/ JumpExecute
    \/ LabelExecute

SpecDispatch == InitDispatch /\ [][NextDispatch]_vars

\* input specification: DEFVAR GF@v; then at most MaxReads READs of each
\* type to GF@v or to the undeclared GF@w, with at most MaxLines input lines
\* and at most MaxLines lines on standard input, each 7, 7 after a space, or true
InputLines == {<<55>>, <<32, 55>>, TxtTrue}

ReadPool ==
    {Body("READ", <<Var(GF, NameV), Arg("type", type)>>) : type \in {TxtInt, TxtBool, TxtString}}
        \cup {Body("READ", <<Var(GF, NameW), Arg("type", TxtInt)>>)}

InitRead ==
    /\ \E bodies \in Seqs(ReadPool, MaxReads) :
          doc = Spaced(<<Body("DEFVAR", <<Var(GF, NameV)>>)>> \o bodies)
    /\ \E lines \in Seqs(InputLines, MaxLines), waiting \in Seqs(InputLines, MaxLines) :
          InitMachineWith(lines, waiting)

NextRead ==
    \/ Load
    \/ Terminate
    \/ DefVarExecute
    \/ ReadExecute

SpecRead == InitRead /\ [][NextRead]_vars

\* type specification: DEFVAR GF@v; DEFVAR GF@t; then every program of at most
\* MaxTypeLen instructions MOVE GF@v s and TYPE GF@t s, s one of int@7,
\* bool@true, string@a, nil@nil, GF@v, GF@t, the undeclared GF@w, the absent
\* TF@v, and int@-0x1F, which is no int; and the program ScenarioMoved
NameT == <<116>>

TypeSymbs ==
    {Arg("int", <<55>>), Arg("bool", TxtTrue), Arg("string", <<97>>), Arg("nil", TxtNil),
     Var(GF, NameV), Var(GF, NameT), Var(GF, NameW), Var(TF, NameV),
     Arg("int", <<45, 48, 120, 49, 70>>)}

\* MOVE GF@v of the int of more than MaxStrDigits digits; TYPE GF@t GF@v
ScenarioMoved ==
    <<Body("MOVE", <<Var(GF, NameV), HugeInt>>),
      Body("TYPE", <<Var(GF, NameT), Var(GF, NameV)>>)>>

TypePool ==
    {Body("MOVE", <<Var(GF, NameV), s>>) : s \in TypeSymbs}
        \cup {Body("TYPE", <<Var(GF, NameT), s>>) : s \in TypeSymbs}
        \cup {Body("WRITE", <<Var(GF, NameT)>>), Body("DPRINT", <<Var(GF, NameT)>>),
              Body("BREAK", <<>>)}

InitType ==
    /\ \E bodies \in Seqs(TypePool, MaxTypeLen) \cup {ScenarioMoved} :
          doc = Spaced(<<Body("DEFVAR", <<Var(GF, NameV)>>),
                         Body("DEFVAR", <<Var(GF, NameT)>>)>> \o bodies)
    /\ InitMachine

NextType ==
    \/ Load
    \/ Terminate
    \/ DefVarExecute
    \/ MoveExecute
    \/ TypeExecute
    \/ WriteExecute
    \/ DprintExecute
    \/ BreakExecute

SpecType == InitType /\ [][NextType]_vars

\* SETCHAR specification: DEFVAR GF@v; at most MaxMoves MOVEs to GF@v of
\* string@ab, string@\092065, the empty string or int@1; then one SETCHAR GF@v
\* i c, i one of int@0, int@1, int@2, int@-1, string@a, and c one of string@x,
\* string@xy, the empty string, int@1, nil@nil
SetcharMoves ==
    {Body("MOVE", <<Var(GF, NameV), x>>) :
        x \in {Arg("string", <<97, 98>>), Arg("string", <<92, 48, 57, 50, 48, 54, 53>>),
               Arg("string", <<>>), One}}

SetcharPool ==
    {Body("SETCHAR", <<Var(GF, NameV), i, c>>) :
        i \in {Arg("int", <<48>>), One, Arg("int", <<50>>), Arg("int", <<45, 49>>),
               Arg("string", <<97>>)},
        c \in {Arg("string", <<120>>), Arg("string", <<120, 121>>), Arg("string", <<>>),
               One, Arg("nil", TxtNil)}}

InitSetchar ==
    /\ \E moves \in Seqs(SetcharMoves, MaxMoves), setchar \in SetcharPool :
          doc = Spaced(<<Body("DEFVAR", <<Var(GF, NameV)>>)>> \o moves \o <<setchar>>)
    /\ InitMachine

NextSetchar ==
    \/ Load
    \/ Terminate
    \/ DefVarExecute
    \/ MoveExecute
    \/ SetcharExecute

SpecSetchar == InitSetchar /\ [][NextSetchar]_vars

\* INT2CHAR specification: DEFVAR GF@v; then every program of at most
\* MaxCharLen instructions INT2CHAR GF@v s, s an int literal at and around the
\* ends of the ranges of code points, string@a or GF@v
CodePoints ==
    {0 - 1, 0, 65, 55295, 55296, 57343, 57344, MaxCodePoint, MaxCodePoint + 1, 2147483647}

CharPool ==
    {Body("INT2CHAR", <<Var(GF, NameV), s>>) :
        s \in {Arg("int", IntStr(n)) : n \in CodePoints}
                \cup {Arg("string", <<97>>), Var(GF, NameV)}}

InitChar ==
    /\ \E bodies \in Seqs(CharPool, MaxCharLen) :
          doc = Spaced(<<Body("DEFVAR", <<Var(GF, NameV)>>)>> \o bodies)
    /\ InitMachine

NextChar ==
    \/ Load
    \/ Terminate
    \/ DefVarExecute
    \/ Int2CharExecute

SpecChar == InitChar /\ [][NextChar]_vars

\* resolution specification: DEFVAR GF@v; DEFVAR GF@u; at most MaxMoves MOVEs
\* of int@1 or string@a to GF@v; then one arithmetic, relational or string
\* instruction with destination GF@v and operands among the undeclared GF@w,
\* the absent TF@v, the uninitialised GF@u, int@1 and string@a
NameUninit == <<117>>

ResolveSymbs ==
    {Var(GF, NameW), Var(TF, NameV), Var(GF, NameUninit), One, Arg("string", <<97>>)}

ResolveMoves == {Body("MOVE", <<Var(GF, NameV), x>>) : x \in {One, Arg("string", <<97>>)}}

ResolvePool ==
    {Body(opcode, <<Var(GF, NameV), a, b>>) :
        opcode \in {"ADD", "SUB", "MUL", "IDIV", "LT", "GT", "EQ", "CONCAT", "GETCHAR",
                    "STRI2INT", "SETCHAR"},
        a \in ResolveSymbs, b \in ResolveSymbs}
        \cup {Body(opcode, <<Var(GF, NameV), a>>) :
                opcode \in {"STRLEN", "INT2CHAR"}, a \in ResolveSymbs}

InitResolve ==
    /\ \E moves \in Seqs(ResolveMoves, MaxMoves), op \in ResolvePool :
          doc = Spaced(<<Body("DEFVAR", <<Var(GF, NameV)>>),
                         Body("DEFVAR", <<Var(GF, NameUninit)>>)>> \o moves \o <<op>>)
    /\ InitMachine

NextResolve ==
    \/ Load
    \/ Terminate
    \/ DefVarExecute
    \/ MoveExecute
    \/ AddSubMulIdivExecute
    \/ LtGtEqExecute
    \/ ConcatExecute
    \/ StrlenExecute
    \/ GetcharExecute
    \/ Stri2IntExecute
    \/ Int2CharExecute
    \/ SetcharExecute

SpecResolve == InitResolve /\ [][NextResolve]_vars

\* store specification: DEFVAR GF@v; CREATEFRAME; DEFVAR TF@v; PUSHFRAME; then
\* every program of at most MaxStoreLen instructions over these bodies, which
\* have each storing handler write to GF@v or LF@v
StorePool ==
    LET gv == Var(GF, NameV)
        lv == Var(LF, NameV)
        zero == Arg("int", <<48>>)
    IN  {Body("MOVE", <<d, Arg("string", <<97, 98>>)>>) : d \in {gv, lv}}
            \cup {Body("POPS", <<d>>) : d \in {gv, lv}}
            \cup {Body("SETCHAR", <<d, zero, Arg("string", <<120>>)>>) : d \in {gv, lv}}
            \cup {Body("READ", <<d, Arg("type", TxtInt)>>) : d \in {gv, lv}}
            \cup {Body("PUSHS", <<One>>),
                  Body("ADD", <<gv, One, One>>),
                  Body("EQ", <<lv, One, One>>),
                  Body("NOT", <<gv, Arg("bool", TxtTrue)>>),
                  Body("CONCAT", <<lv, Arg("string", <<97>>), Arg("string", <<98>>)>>),
                  Body("STRLEN", <<gv, lv>>),
                  Body("GETCHAR", <<lv, gv, zero>>),
                  Body("STRI2INT", <<gv, lv, zero>>),
                  Body("INT2CHAR", <<lv, Arg("int", <<54, 53>>)>>),
                  Body("TYPE", <<gv, One>>),
                  Body("DEFVAR", <<Var(LF, NameW)>>),
                  Body("CREATEFRAME", <<>>)}

StorePreamble ==
    <<Body("DEFVAR", <<Var(GF, NameV)>>), Body("CREATEFRAME", <<>>),
      Body("DEFVAR", <<Var(TF, NameV)>>), Body("PUSHFRAME", <<>>)>>

InitStore ==
    /\ \E bodies \in Seqs(StorePool, MaxStoreLen) : doc = Spaced(StorePreamble \o bodies)
    /\ InitMachine

NextStore ==
    \/ Load
    \/ Terminate
    \/ DefVarExecute
    \/ CreateFrameExecute
    \/ PushFrameExecute
    \/ MoveExecute
    \/ PushsExecute
    \/ PopsExecute
    \/ AddSubMulIdivExecute
    \/ LtGtEqExecute
    \/ AndOrNotExecute
    \/ ConcatExecute
    \/ StrlenExecute
    \/ GetcharExecute
    \/ Stri2IntExecute
    \/ Int2CharExecute
    \/ SetcharExecute
    \/ ReadExecute
    \/ TypeExecute

SpecStore == InitStore /\ [][NextStore]_vars

\* position specification: every program of at most MaxPcLen instructions
\* over LABEL a, LABEL b, JUMP a, CALL a, CALL b, RETURN, a JUMPIFEQ a that
\* jumps, a JUMPIFNEQ b that jumps and a JUMPIFNEQ a that does not
PcPool ==
    {Body("LABEL", <<Arg("label", NameA)>>), Body("LABEL", <<Arg("label", NameB)>>),
     Body("JUMP", <<Arg("label", NameA)>>), Body("CALL", <<Arg("label", NameA)>>),
     Body("CALL", <<Arg("label", NameB)>>), Body("RETURN", <<>>),
     Body("JUMPIFEQ", <<Arg("label", NameA), One, One>>),
     Body("JUMPIFNEQ", <<Arg("label", NameB), One, Arg("int", <<48>>)>>),
     Body("JUMPIFNEQ", <<Arg("label", NameA), One, One>>)}

\* of these programs, the ones that end (Ends)
InitPc ==
    /\ \E bodies \in {b \in Seqs(PcPool, MaxPcLen) : Ends(b)} : doc = Spaced(bodies)
    /\ InitMachine

NextPc ==
    \/ Load
    \/ Terminate
    \/ LabelExecute
    \/ JumpExecute
    \/ JumpifExecute
    \/ CallExecute
    \/ ReturnExecute

SpecPc == InitPc /\ [][NextPc]_vars

\* failure specification: DEFVAR GF@v; then every program of at most MaxFailLen
\* instructions over these bodies, with no input line or the one line 7:
\* PUSHS int@1; POPS to GF@v and to the undeclared GF@w; CALL l, CALL u to an
\* undefined label, LABEL l, RETURN; READ int to GF@v and to GF@w; CREATEFRAME,
\* PUSHFRAME, POPFRAME; DEFVAR GF@v again and DEFVAR TF@v; IDIV GF@v int@1
\* int@0; MOVE string@a int@1, whose destination is no variable
MaxFailLen == 3

FailPool ==
    {Body("PUSHS", <<One>>),
     Body("POPS", <<Var(GF, NameV)>>), Body("POPS", <<Var(GF, NameW)>>),
     Body("CALL", <<Arg("label", NameL)>>), Body("CALL", <<Arg("label", NameU)>>),
     Body("LABEL", <<Arg("label", NameL)>>), Body("RETURN", <<>>),
     Body("READ", <<Var(GF, NameV), Arg("type", TxtInt)>>),
     Body("READ", <<Var(GF, NameW), Arg("type", TxtInt)>>),
     Body("CREATEFRAME", <<>>), Body("PUSHFRAME", <<>>), Body("POPFRAME", <<>>),
     Body("DEFVAR", <<Var(GF, NameV)>>), Body("DEFVAR", <<Var(TF, NameV)>>),
     Body("IDIV", <<Var(GF, NameV), One, Arg("int", <<48>>)>>),
     Body("MOVE", <<Arg("string", <<97>>), One>>)}

\* of these programs, the ones that end (Ends)
InitFail ==
    /\ \E bodies \in {b \in Seqs(FailPool, MaxFailLen) :
                           Ends(<<Body("DEFVAR", <<Var(GF, NameV)>>)>> \o b)} :
          doc = Spaced(<<Body("DEFVAR", <<Var(GF, NameV)>>)>> \o bodies)
    /\ \E lines \in {<<>>, <<<<55>>>>} : InitMachineWith(lines, <<>>)

NextFail ==
    \/ Load
    \/ Terminate
    \/ DefVarExecute
    \/ MoveExecute
    \/ CreateFrameExecute
    \/ PushFrameExecute
    \/ PopFrameExecute
    \/ PushsExecute
    \/ PopsExecute
    \/ CallExecute
    \/ ReturnExecute
    \/ LabelExecute
    \/ ReadExecute
    \/ AddSubMulIdivExecute

SpecFail == InitFail /\ [][NextFail]_vars

\* linear specification: every program of at most MaxLinearLen instructions
\* over these bodies, with no input: DEFVAR GF@v; MOVE GF@v int@1; PUSHS int@1;
\* POPS GF@v; RETURN; LABEL l; CREATEFRAME; EXIT int@0; READ GF@v int; and,
\* for the programs that do jump, JUMP l and CALL l.  The loop of
\* execute_instructions runs each step to its end and takes the next one at
\* once, which is the weak fairness of its step
MaxLinearLen == 3

LinearPool ==
    {Body("DEFVAR", <<Var(GF, NameV)>>), Body("MOVE", <<Var(GF, NameV), One>>),
     Body("PUSHS", <<One>>), Body("POPS", <<Var(GF, NameV)>>),
     Body("RETURN", <<>>), Body("LABEL", <<Arg("label", NameL)>>),
     Body("CREATEFRAME", <<>>), Body("EXIT", <<Arg("int", <<48>>)>>),
     Body("READ", <<Var(GF, NameV), Arg("type", TxtInt)>>),
     Body("JUMP", <<Arg("label", NameL)>>), Body("CALL", <<Arg("label", NameL)>>)}

\* of these programs, the ones that end (Ends)
InitLinear ==
    /\ \E bodies \in {b \in Seqs(LinearPool, MaxLinearLen) : Ends(b)} :
          doc = Spaced(bodies)
    /\ InitMachine

NextLinear ==
    \/ Load
    \/ Terminate
    \/ DefVarExecute
    \/ MoveExecute
    \/ PushsExecute
    \/ PopsExecute
    \/ ReturnExecute
    \/ LabelExecute
    \/ CreateFrameExecute
    \/ ExitExecute
    \/ ReadExecute
    \/ JumpExecute
    \/ CallExecute

\* one pass of the loop of execute_instructions, lines 444-461
LinearStep == phase = "run" /\ NextLinear

SpecLinear == InitLinear /\ [][NextLinear]_vars /\ WF_vars(LinearStep)

\* int literal specification: DEFVAR GF@v; MOVE GF@v int@s, for every text s of
\* at most MaxIntLen characters over - 0 1 7 F _ o x; the loader rejects with 32
\* the texts its int lexer does not accept
MaxIntLen == 4

IntChars == {45, 48, 49, 55, 70, 95, 111, 120}

InitInt ==
    /\ \E s \in Seqs(IntChars, MaxIntLen) :
          doc = Spaced(<<Body("DEFVAR", <<Var(GF, NameV)>>),
                         Body("MOVE", <<Var(GF, NameV), Arg("int", s)>>)>>)
    /\ InitMachine

NextInt ==
    \/ Load
    \/ Terminate
    \/ DefVarExecute
    \/ MoveExecute

SpecInt == InitInt /\ [][NextInt]_vars

\* the opcodes and arguments of the loaded program
Program == [k \in 1..Len(instructions) |->
               Body(instructions[k].opcode, instructions[k].args)]

-----------------------------------------------------------------------------
(* Properties of the loader, under SpecLoad.                               *)

\* the number the order attribute of an element denotes, 0 when it denotes none
order_of(el) ==
    IF el.order # Absent /\ isdigit(el.order) /\ PyInt(el.order, 10).ok
    THEN PyInt(el.order, 10).n
    ELSE 0

\* the instruction an element with the children arg1..argN in this order denotes
Denoted_by(el) ==
    [order |-> order_of(el), opcode |-> opcode_upper(el.opcode),
     args |-> [k \in 1..Len(el.args) |->
                  [arg_type |-> el.args[k].arg_type, value |-> el.args[k].value]]]

\* every order is at least 1 and no two elements share one
ValidOrders(d) ==
    \A j \in 1..Len(d) :
        /\ order_of(d[j]) >= 1
        /\ \A k \in 1..Len(d) : order_of(d[k]) = order_of(d[j]) => k = j

Ascending(s) == \A j \in 1..(Len(s) - 1) : s[j].order < s[j + 1].order

\* the document with its elements in another order
Shuffled(d, perm) == [k \in 1..Len(d) |-> d[perm[k]]]

\* the script ended at the load, before any instruction
LoadFailed == phase = "done" /\ instr_name = "" /\ error_code # 0

\* C1: for every document with unique orders >= 1, the loader returns the
\* instructions in ascending order, and every permutation of the elements of
\* the document loads to the same instruction list, the same label index and
\* the same load result, which are all an execution depends on.
C1_PermutationInvariant ==
    phase # "load" /\ ValidOrders(doc) =>
        /\ Ascending(instructions)
        /\ LoadFailed \/ Range(instructions) = {Denoted_by(doc[k]) : k \in 1..Len(doc)}
        /\ \A perm \in Permutations(1..Len(doc)) :
              \A loaded \in {load_source(root, Shuffled(doc, perm))} :
                  /\ loaded.instructions = instructions
                  /\ loaded.labels = labels
                  /\ loaded.error_code # 0 <=> LoadFailed

\* a document of three elements in descending order, two of them labels, has
\* been loaded and runs
C1_Witness ==
    /\ phase = "run"
    /\ Len(doc) = 3
    /\ order_of(doc[1]) > order_of(doc[2])
    /\ order_of(doc[2]) > order_of(doc[3])
    /\ DOMAIN labels = {NameA, NameB}
    /\ instructions = <<Denoted_by(doc[3]), Denoted_by(doc[2]), Denoted_by(doc[1])>>

\* the elements of the document that are LABELs of the name
LabelsOf(d, name) ==
    {k \in 1..Len(d) : opcode_upper(d[k].opcode) = "LABEL" /\ d[k].args[1].value = name}

\* two elements share an order; two LABELs share a name
DuplicateOrder(d) == \E j, k \in 1..Len(d) : j # k /\ order_of(d[j]) = order_of(d[k])
DuplicateLabel(d) ==
    \E j \in 1..Len(d) :
        opcode_upper(d[j].opcode) = "LABEL" /\ Cardinality(LabelsOf(d, d[j].args[1].value)) > 1

\* C21: a document whose only defect is an order that two elements share
\* fails to load with 32, one whose only defect is a LABEL name used twice
\* fails with 52, and in both cases there is no instruction list and nothing
\* is executed; a document with neither defect loads, and its label index
\* maps each label name to the order of the one LABEL that defines it.
C21_LoadDefects ==
    phase # "load" /\ root = ProgramRoot /\ (\A k \in 1..Len(doc) : order_of(doc[k]) >= 1) =>
        /\ DuplicateOrder(doc) /\ ~DuplicateLabel(doc) =>
                /\ LoadFailed /\ error_code = 32
                /\ instructions = <<>> /\ executed_instructions_count = 0
        /\ DuplicateLabel(doc) /\ ~DuplicateOrder(doc) =>
                /\ LoadFailed /\ error_code = 52
                /\ instructions = <<>> /\ executed_instructions_count = 0
        /\ ~DuplicateLabel(doc) /\ ~DuplicateOrder(doc) =>
                /\ ~LoadFailed
                /\ DOMAIN labels = {name \in {doc[k].args[1].value : k \in 1..Len(doc)} :
                                        LabelsOf(doc, name) # {}}
                /\ \A name \in DOMAIN labels :
                      \A k \in LabelsOf(doc, name) : labels[name] = order_of(doc[k])

\* a document of three elements with three orders, the first and the last
\* LABELs of one name, has failed to load with 52
C21_Witness ==
    /\ LoadFailed
    /\ error_code = 52
    /\ Len(doc) = 3
    /\ ValidOrders(doc)
    /\ Cardinality(LabelsOf(doc, NameA)) = 2
    /\ opcode_upper(doc[2].opcode) = "JUMP"

-----------------------------------------------------------------------------
(* Properties of the control flow, under SpecFlow.                         *)

\* the 1-based index of LABEL label in the sorted list
IndexOfLabel(label) ==
    CHOOSE k \in 1..Len(instructions) :
        instructions[k].opcode = "LABEL" /\ instructions[k].args[1].value = label

\* C2: after a JUMP L whose label is defined, before or after the JUMP, the
\* position is index(LABEL L) + 1; the instruction executed next is the one at
\* the position, and the run ends with 0 when the position is past the end.
C2_JumpLands ==
    [][/\ Dispatch("JUMP") =>
            \A label \in {Cur.args[1].value} :
                label \in DOMAIN labels =>
                    /\ phase' = "run"
                    /\ instructions[IndexOfLabel(label)].opcode = "LABEL"
                    /\ instructions[IndexOfLabel(label)].args[1].value = label
                    /\ current_position' = (IndexOfLabel(label) - 1) + 1
                    /\ UNCHANGED machine
       /\ phase = "run" /\ phase' # "load" =>
            IF current_position < Len(instructions)
            THEN instr_name' = instructions[current_position + 1].opcode
            ELSE phase' = "done" /\ error_code' = 0 /\ UNCHANGED instr_name
      ]_vars

\* ScenarioBack has ended with 0: its JUMP a, the sixth instruction, went
\* back to the RETURN after LABEL a, the third, and its JUMP e went forward
\* to LABEL e, the last instruction; the two LABELs jumped to and LABEL b
\* were not executed
C2_Witness ==
    /\ phase = "done"
    /\ error_code = 0
    /\ Program = ScenarioBack
    /\ instr_name = "JUMP"
    /\ executed_instructions_count = 4
    /\ current_position = Len(instructions)
    /\ call_stack = <<>>

\* C3: CALL L with L defined pushes the index of the CALL itself and continues
\* after LABEL L; RETURN pops the index pushed last and continues with the
\* instruction that follows that CALL; no other instruction changes the call
\* stack, so returns match calls in LIFO order and a matched pair restores it.
C3_CallReturn ==
    [][/\ Dispatch("CALL") =>
            \A label \in {Cur.args[1].value} :
                label \in DOMAIN labels =>
                    /\ phase' = "run"
                    /\ call_stack' = Append(call_stack, current_position)
                    /\ instructions[Top(call_stack') + 1] = Cur
                    /\ current_position' = (IndexOfLabel(label) - 1) + 1
       /\ Dispatch("RETURN") /\ Len(call_stack) > 0 =>
            /\ phase' = "run"
            /\ call_stack' = Front(call_stack)
            /\ instructions[Top(call_stack) + 1].opcode = "CALL"
            /\ current_position' = Top(call_stack) + 1
       /\ ~Dispatch("CALL") /\ ~Dispatch("RETURN") => UNCHANGED call_stack
      ]_vars

\* the nested scenario after its second RETURN: both calls have returned in
\* LIFO order, the call stack is empty again and the JUMP after the first CALL
\* is next
C3_Witness ==
    /\ Program = ScenarioNested
    /\ phase = "run"
    /\ instr_name = "RETURN"
    /\ executed_instructions_count = 4
    /\ call_stack = <<>>
    /\ current_position = 1

-----------------------------------------------------------------------------
(* Properties of values and variables, under SpecData.                     *)

\* C4: PUSHS x with x resolving without error pushes the value and tag x
\* resolves to and nothing else; a POPS y that follows it at once, y declared,
\* leaves y resolving to that value and tag, and the data stack as it was
\* before the PUSHS.
C4_PushsPops ==
    [][/\ Dispatch("PUSHS") =>
            \A x \in {OperandValue(Cur.args[1])} :
                x.code = 0 =>
                    /\ phase' = "run"
                    /\ data_stack' = Append(data_stack, x.v)
                    /\ UNCHANGED <<frames, heap>>
       /\ Dispatch("POPS") /\ instr_name = "PUSHS" =>
            \A y \in {Cur.args[1]}, pushed \in {Top(data_stack)} :
                is_variable_defined(y.value) = 0 =>
                    /\ phase' = "run"
                    /\ data_stack' = Front(data_stack)
                    /\ OperandValue(y)' = [code |-> 0, v |-> pushed]
      ]_vars

\* C5: no coercion on read: a variable that holds a value resolves to exactly
\* the value and tag its slot holds, which is what the last write stored.
C5_NoCoercionOnRead ==
    \A n \in DOMAIN heap[frames[GF]] :
        heap[frames[GF]][n] # None =>
            OperandValue(Var(GF, n)) = [code |-> 0, v |-> heap[frames[GF]][n]]

\* C6: after CONCAT c a b and then STRLEN n c, both without error, n holds the
\* sum of the lengths of a and b, the lengths being those of the values the
\* operands a and b resolve to.
C6_StrlenOfConcat ==
    /\ phase = "run"
    /\ instr_name = "STRLEN"
    /\ current_position >= 2
    /\ instructions[current_position - 1].opcode = "CONCAT"
    /\ instructions[current_position].args[2] = instructions[current_position - 1].args[1]
    =>
    \A concat \in {instructions[current_position - 1]},
       n \in {SplitAt(instructions[current_position].args[1].value).var_name} :
        heap[frames[GF]][n] =
            IntV(Len(OperandValue(concat.args[2]).v.s) + Len(OperandValue(concat.args[3]).v.s))

\* C7: resolving FRAME@name gives 55 when the frame is absent, else 54 when
\* the name is not declared in it, else 56 when the slot is uninitialised,
\* else the stored value with its tag; a write target is accepted as soon as
\* the frame and the name exist.
C7_ResolvePrecedence ==
    \A frame_name \in {GF, LF, TF}, n \in {NameV, NameW} :
        \A ref \in {frames[frame_name]} :
            /\ OperandValue(Var(frame_name, n)) =
                   IF ref = NoFrame THEN [code |-> 55, v |-> None]
                   ELSE IF n \notin DOMAIN heap[ref] THEN [code |-> 54, v |-> None]
                   ELSE IF heap[ref][n] = None THEN [code |-> 56, v |-> None]
                   ELSE [code |-> 0, v |-> heap[ref][n]]
            /\ is_variable_defined(Var(frame_name, n).value) =
                   IF ref = NoFrame THEN 55
                   ELSE IF n \notin DOMAIN heap[ref] THEN 54
                   ELSE 0

-----------------------------------------------------------------------------
(* Properties of the operations, under SpecOps.                            *)

\* the content of the slot a var argument names
Slot(var) ==
    heap[frames[frame_key(SplitAt(var.value).frame_name)]][SplitAt(var.value).var_name]

\* the instruction at the position is about to run with a declared destination
\* and operands that resolve
Operates(opcodes) ==
    /\ Running
    /\ Cur.opcode \in opcodes
    /\ is_variable_defined(Cur.args[1].value) = 0
    /\ \A k \in 2..Len(Cur.args) : OperandValue(Cur.args[k]).code = 0

\* the types the operands of the instruction at the position resolve to
OperandTypes == {OperandValue(Cur.args[k]).v.t : k \in 2..Len(Cur.args)}

Fails(code) == phase' = "done" /\ error_code' = code

\* C11: with a declared destination and operands that resolve, literals or
\* variables, ADD, SUB, MUL and IDIV fail with 53 unless both operands are int,
\* AND, OR and NOT fail with 53 unless every operand is bool, and a failure
\* with 53 leaves the destination and all the rest of the machine as it was.
C11_OperandTypes ==
    [][/\ Operates({"ADD", "SUB", "MUL", "IDIV"}) =>
            IF OperandTypes = {"int"} THEN ~Fails(53)
            ELSE Fails(53) /\ UNCHANGED machine
       /\ Operates({"AND", "OR", "NOT"}) =>
            IF OperandTypes = {"bool"} THEN phase' = "run"
            ELSE Fails(53) /\ UNCHANGED machine
      ]_vars

\* an AND whose first operand is the variable GF@v holding an int has failed
\* with 53, and the destination GF@w still holds the string it held
C11_Witness ==
    /\ phase = "done"
    /\ error_code = 53
    /\ instr_name = "AND"
    /\ Cur.args[2] = Var(GF, NameV)
    /\ Cur.args[3].arg_type = "bool"
    /\ Slot(Var(GF, NameV)).t = "int"
    /\ Slot(Cur.args[1]) = StrV(Old.value)

\* C12: IDIV on ints a and b fails with 57 when b = 0 and changes nothing;
\* otherwise it stores, with tag int, the q for which a = q * b + r with r = 0
\* or r strictly between 0 and b, whatever the signs of a and b.
C12_FloorDivision ==
    [][Operates({"IDIV"}) /\ OperandTypes = {"int"} =>
          \A a \in {OperandValue(Cur.args[2]).v.i}, b \in {OperandValue(Cur.args[3]).v.i},
             var \in {Cur.args[1]} :
              IF b = 0 THEN Fails(57) /\ UNCHANGED machine
              ELSE /\ phase' = "run"
                   /\ Slot(var)'.t = "int"
                   /\ \A r \in {a - Slot(var)'.i * b} :
                         \/ r = 0
                         \/ b > 0 /\ 0 < r /\ r < b
                         \/ b < 0 /\ b < r /\ r < 0
      ]_vars

\* IDIV of 7 by -2 has stored -4
C12_Witness ==
    /\ phase = "run"
    /\ instr_name = "IDIV"
    /\ instructions[current_position].args[2] = Arg("int", <<55>>)
    /\ instructions[current_position].args[3] = Arg("int", <<45, 50>>)
    /\ Slot(Var(GF, NameW)) = IntV(0 - 4)

\* the order of two values of one type that is not nil: ints by value, bools
\* with false before true, strings by code points
Before(v1, v2) ==
    CASE v1.t = "int" -> v1.i < v2.i
      [] v1.t = "bool" -> ~v1.b /\ v2.b
      [] v1.t = "string" -> StrLess(v1.s, v2.s)

\* C13: with a declared destination and operands that resolve, EQ, LT and GT
\* fail with 53 when the types differ and neither is nil; LT and GT fail with
\* 53 when an operand is nil; otherwise EQ stores bool true iff the operands
\* have the same type and value (nil equals only nil), and LT and GT store the
\* order of the values, false before true for bools.
C13_Relational ==
    [][Operates({"EQ", "LT", "GT"}) =>
          \A v1 \in {OperandValue(Cur.args[2]).v}, v2 \in {OperandValue(Cur.args[3]).v},
             var \in {Cur.args[1]}, opcode \in {Cur.opcode} :
              IF v1.t # v2.t /\ "nil" \notin {v1.t, v2.t} THEN Fails(53) /\ UNCHANGED machine
              ELSE IF opcode # "EQ" /\ "nil" \in {v1.t, v2.t}
              THEN Fails(53) /\ UNCHANGED machine
              ELSE /\ phase' = "run"
                   /\ Slot(var)' =
                         BoolV(CASE opcode = "EQ" -> v1 = v2
                                 [] opcode = "LT" -> Before(v1, v2)
                                 [] opcode = "GT" -> Before(v2, v1))
      ]_vars

\* EQ of nil@nil with the variable GF@v holding a string has stored false
C13_Witness ==
    /\ phase = "run"
    /\ instr_name = "EQ"
    /\ instructions[current_position].args[2] = Arg("nil", TxtNil)
    /\ instructions[current_position].args[3] = Var(GF, NameV)
    /\ Slot(Var(GF, NameV)).t = "string"
    /\ Slot(Var(GF, NameW)) = BoolV(FALSE)

-----------------------------------------------------------------------------
(* Properties of the jumps, under SpecJump.                                *)

\* C14: JUMPIFEQ l a b with l defined and a, b resolving fails with 53 when
\* the types differ and neither is nil; otherwise it jumps to l iff a and b have
\* the same type and equal values, nil equal to nil only (what EQ stores), and
\* goes on with the next instruction if not; JUMPIFNEQ jumps in exactly the
\* other cases without error.
C14_ConditionalJump ==
    [][/\ Running
       /\ Cur.opcode \in {"JUMPIFEQ", "JUMPIFNEQ"}
       /\ Cur.args[1].value \in DOMAIN labels
       /\ OperandValue(Cur.args[2]).code = 0
       /\ OperandValue(Cur.args[3]).code = 0
       =>
       \A v1 \in {OperandValue(Cur.args[2]).v}, v2 \in {OperandValue(Cur.args[3]).v},
          label \in {Cur.args[1].value}, opcode \in {Cur.opcode} :
           IF v1.t # v2.t /\ "nil" \notin {v1.t, v2.t} THEN Fails(53)
           ELSE /\ phase' = "run"
                /\ current_position' =
                      IF Relation("EQ", v1, v2) <=> opcode = "JUMPIFEQ"
                      THEN (IndexOfLabel(label) - 1) + 1
                      ELSE current_position + 1
      ]_vars

\* C15: JUMP, CALL, JUMPIFEQ and JUMPIFNEQ naming a label that is not in the
\* label index fail with 52, whatever the operands of a conditional jump are,
\* and change neither the call stack nor anything else of the machine.
C15_UndefinedLabel ==
    [][/\ Running
       /\ Cur.opcode \in {"JUMP", "CALL", "JUMPIFEQ", "JUMPIFNEQ"}
       /\ Cur.args[1].value \notin DOMAIN labels
       =>
       /\ Fails(52)
       /\ UNCHANGED <<machine, current_position, executed_instructions_count>>
      ]_vars

\* a JUMPIFEQ to the undefined label u whose first operand is the absent TF@v
\* and whose second is of another type has failed with 52
C15_Witness ==
    /\ phase = "done"
    /\ error_code = 52
    /\ instr_name = "JUMPIFEQ"
    /\ Cur.args[1].value = NameU
    /\ Cur.args[2] = Var(TF, NameV)
    /\ Cur.args[3].arg_type = "int"
    /\ call_stack = <<>>

-----------------------------------------------------------------------------
(* Properties of the stacks, under SpecStack.                              *)

\* C16: RETURN with an empty call stack fails with 56, and so does POPS to a
\* declared variable with an empty data stack, both leaving the stacks, the
\* frames and the position as they were; with a non-empty data stack POPS
\* removes the entry pushed last and stores it, value and type, in the variable.
C16_EmptyStacks ==
    [][/\ Dispatch("RETURN") /\ call_stack = <<>> =>
            /\ Fails(56)
            /\ UNCHANGED <<machine, current_position, executed_instructions_count>>
       /\ Dispatch("POPS") /\ is_variable_defined(Cur.args[1].value) = 0 =>
            \A var \in {Cur.args[1]}, stack \in {data_stack} :
                IF stack = <<>>
                THEN /\ Fails(56)
                     /\ UNCHANGED <<machine, current_position, executed_instructions_count>>
                ELSE /\ phase' = "run"
                     /\ data_stack' = Front(stack)
                     /\ Slot(var)' = Top(stack)
                     /\ UNCHANGED <<frames, frame_stack, call_stack>>
      ]_vars

\* PUSHS int@1; PUSHS string@a; POPS GF@v; RETURN: the variable holds the
\* string, the int is left on the data stack, and RETURN has failed with 56
C16_Witness ==
    /\ phase = "done"
    /\ error_code = 56
    /\ instr_name = "RETURN"
    /\ Program[current_position] = Body("POPS", <<Var(GF, NameV)>>)
    /\ call_stack = <<>>
    /\ data_stack = <<IntV(1)>>
    /\ Slot(Var(GF, NameV)) = StrV(<<97>>)

-----------------------------------------------------------------------------
(* Properties of the dispatcher, under SpecDispatch.                       *)

\* C17: execute_instructions returns 0 exactly when the position has reached
\* the number of instructions; a step that ends with a code other than 0 leaves
\* the position and the count of executed instructions as they were and
\* returns them with the opcode of the instruction at the position; a step
\* that goes on has counted its instruction; and once a code has been
\* returned no instruction is executed.
C17_Dispatcher ==
    [][/\ phase # "done"
       /\ phase = "run" =>
            /\ (phase' = "done" /\ error_code' = 0) <=>
                    current_position >= Len(instructions)
            /\ current_position < Len(instructions) =>
                    /\ instr_name' = Cur.opcode
                    /\ phase' = "done" =>
                            /\ error_code' # 0
                            /\ UNCHANGED <<current_position, executed_instructions_count>>
                    /\ phase' = "run" =>
                            /\ error_code' = 0
                            /\ executed_instructions_count' = executed_instructions_count + 1
      ]_vars

\* the second of three instructions has failed after one executed instruction
C17_Witness ==
    /\ phase = "done"
    /\ error_code # 0
    /\ Len(instructions) = 3
    /\ current_position = 1
    /\ executed_instructions_count = 1
    /\ instr_name = Cur.opcode

\* C18: when a loaded program stops on an error, the code that
\* execute_instructions has returned is one of 52, 53, 54, 55, 56, 57, 58.
C18_RunErrorCodes == ErrorReported => error_code \in 52..58

\* C19: EXIT whose operand resolves fails with 53 when the operand is not an
\* int and with 57 when the int is outside 0..49; with an int n in 0..49 the
\* process ends in the handler with exit status n, without an error report and
\* with nothing of the machine changed, and no instruction is executed after.
C19_Exit ==
    [][/\ phase # "exit"
       /\ Dispatch("EXIT") /\ OperandValue(Cur.args[1]).code = 0 =>
            \A v \in {OperandValue(Cur.args[1]).v} :
                IF v.t # "int" THEN Fails(53)
                ELSE IF ~Within(v, 0, 49) THEN Fails(57)
                ELSE /\ phase' = "exit"
                     /\ ExitStatus' = v.i
                     /\ ~ErrorReported'
                     /\ UNCHANGED <<machine, current_position,
                                    executed_instructions_count>>
      ]_vars

\* the second of three instructions was EXIT int@49: the process has ended
\* with status 49 and the third instruction is left unexecuted
C19_Witness ==
    /\ phase = "exit"
    /\ ExitStatus = 49
    /\ Len(instructions) = 3
    /\ current_position = 1
    /\ Cur.opcode = "EXIT"
    /\ executed_instructions_count = 1

\* C20: when execution has stopped on an error, the order the script reports is
\* the order attribute of the instruction at the position, the opcode it
\* reports is that instruction's, and the exit status is the error code.
C20_ErrorReport ==
    ErrorReported =>
        /\ ReportedOrder = Cur.order
        /\ instr_name = Cur.opcode
        /\ ExitStatus = error_code

-----------------------------------------------------------------------------
(* Properties of READ, under SpecRead.                                     *)

\* the READs executed so far: the programs of SpecRead have no jumps
ReadsDone ==
    Cardinality({k \in 1..current_position : instructions[k].opcode = "READ"})

\* the instruction at the position is a READ whose variable is declared
Reads == Dispatch("READ") /\ is_variable_defined(Cur.args[1].value) = 0

\* C22: with the input lines L1..Ln, the k-th executed READ, k <= n, stores
\* what its type makes of Lk and leaves standard input alone; every later
\* READ, and every READ when no lines were given, takes the next line of
\* standard input while there is one.
C22_InputOrder ==
    [][Reads =>
        \A var \in {Cur.args[1]}, type \in {Cur.args[2].value}, k \in {ReadsDone + 1},
           waiting \in {stdin} :
            IF k <= Len(input_lines)
            THEN /\ Slot(var)' = ReadValue(type, input_lines[k])
                 /\ stdin' = waiting
            ELSE waiting # <<>> =>
                    /\ Slot(var)' = ReadValue(type, Head(waiting))
                    /\ stdin' = Tail(waiting)
      ]_vars

\* C23: a READ to a declared variable never ends with an error code; when no
\* input remains, no input line left or none given and standard input at its
\* end, it stores nil whatever its type; and READ of type int stores nil when
\* the input line it is due is not an integer literal.
C23_ReadNil ==
    [][Reads =>
        \A var \in {Cur.args[1]}, type \in {Cur.args[2].value}, k \in {ReadsDone + 1},
           waiting \in {stdin} :
            /\ phase' = "run"
            /\ k > Len(input_lines) /\ waiting = <<>> => Slot(var)' = NilV
            /\ /\ type = TxtInt
               /\ k <= Len(input_lines)
               /\ ~MatchesArgType("int", input_lines[k])
               => Slot(var)' = NilV
      ]_vars

-----------------------------------------------------------------------------
(* Properties of TYPE, under SpecType.                                     *)

\* C24: TYPE to a declared variable stores, as a string, the name of the
\* type its operand resolves to, for a constant and for an initialised
\* variable, so that TYPE t v right after a successful MOVE v s stores the name
\* of the type s resolves to; it stores the empty string for a declared
\* variable without a value, and that error 56 is the only one it passes
\* over: with an operand that resolves with any other error, 54 for an
\* undeclared variable and 55 for a variable of an absent frame among them,
\* it fails with that error, changing nothing.
C24_Type ==
    [][Dispatch("TYPE") /\ is_variable_defined(Cur.args[1].value) = 0 =>
        \A var \in {Cur.args[1]}, symb \in {Cur.args[2]},
           r \in {OperandValue(Cur.args[2])},
           moved \in {IF instr_name = "MOVE"
                      THEN instructions[current_position].args
                      ELSE <<>>} :
            /\ r.code = 0 => phase' = "run" /\ Slot(var)' = StrV(TypeText(r.v.t))
            /\ r.code = 56 => phase' = "run" /\ Slot(var)' = StrV(<<>>)
            /\ r.code \notin {0, 56} => Fails(r.code) /\ UNCHANGED machine
            /\ moved # <<>> /\ moved[1] = symb =>
                    Slot(var)' = StrV(TypeText(OperandValue(moved[2]).v.t))
      ]_vars

-----------------------------------------------------------------------------
(* Properties of SETCHAR, under SpecSetchar.                               *)

\* C25: SETCHAR var i c with var declared and i, c resolving fails with 56
\* when var has no value, with 53 unless var holds a string, i is an int and
\* c a string, and with 58 when c is empty or i is not an index of the string
\* var holds; otherwise var then holds a string of the same length, equal to
\* the one it held at every index but i, where it has the first character of c.
C25_Setchar ==
    [][Operates({"SETCHAR"}) =>
        \A var \in {Cur.args[1]}, held \in {Slot(Cur.args[1])},
           i \in {OperandValue(Cur.args[2]).v}, c \in {OperandValue(Cur.args[3]).v} :
            IF held = None THEN Fails(56)
            ELSE IF held.t # "string" \/ i.t # "int" \/ c.t # "string" THEN Fails(53)
            ELSE IF c.s = <<>> \/ i.i \notin 0..(Len(held.s) - 1) THEN Fails(58)
            ELSE /\ phase' = "run"
                 /\ Slot(var)'.t = "string"
                 /\ Len(Slot(var)'.s) = Len(held.s)
                 /\ \A k \in 1..Len(held.s) :
                       Slot(var)'.s[k] = IF k = i.i + 1 THEN c.s[1] ELSE held.s[k]
      ]_vars

-----------------------------------------------------------------------------
(* Properties of INT2CHAR, under SpecChar.                                 *)

\* a Unicode scalar value: a code point outside the surrogate range
IsScalarValue(n) == n \in 0..55295 \/ n \in 57344..MaxCodePoint

\* C26: INT2CHAR to a declared variable with an int operand n stores the
\* string of the one character n when n is a Unicode scalar value, and for
\* every other n fails with 58 and leaves the variable as it was.
C26_Int2Char ==
    [][Operates({"INT2CHAR"}) /\ OperandTypes = {"int"} =>
        \A var \in {Cur.args[1]}, n \in {OperandValue(Cur.args[2]).v.i} :
            IF IsScalarValue(n)
            THEN phase' = "run" /\ Slot(var)' = StrV(<<n>>)
            ELSE Fails(58) /\ UNCHANGED machine
      ]_vars

-----------------------------------------------------------------------------
(* Properties of operand resolution, under SpecResolve.                    *)

\* the operands of the instruction at the position that do not resolve
Unresolved == {k \in 2..Len(Cur.args) : OperandValue(Cur.args[k]).code # 0}

\* C27: an arithmetic, relational or string instruction whose destination is
\* declared and one of whose operands does not resolve fails with the error
\* 54, 55 or 56 of its first such operand, never with 53, whatever the other
\* operand is and whatever the destination holds.
C27_ResolveFirst ==
    [][/\ Running
       /\ Cur.opcode \in {"ADD", "SUB", "MUL", "IDIV", "LT", "GT", "EQ", "CONCAT", "STRLEN",
                          "GETCHAR", "STRI2INT", "INT2CHAR", "SETCHAR"}
       /\ is_variable_defined(Cur.args[1].value) = 0
       /\ Unresolved # {}
       =>
       \A k \in {CHOOSE j \in Unresolved : \A m \in Unresolved : j <= m} :
          \A code \in {OperandValue(Cur.args[k]).code} :
              code \in {54, 55, 56} /\ Fails(code)
      ]_vars

-----------------------------------------------------------------------------
(* Properties of the stores, under SpecStore.                              *)

\* the opcodes of the handlers that call store_result
StoreOpcodes ==
    {"MOVE", "POPS", "ADD", "SUB", "MUL", "IDIV", "LT", "GT", "EQ", "AND", "OR", "NOT",
     "INT2CHAR", "STRI2INT", "CONCAT", "STRLEN", "GETCHAR", "SETCHAR", "READ", "TYPE"}

\* C29: a step of an instruction that stores a result leaves frames, the
\* frame stack and the call stack as they were, leaves every frame with the
\* names it had, and changes no slot other than the one its first argument
\* names; and a step after which a frame has a name it had not is a DEFVAR.
C29_StoreFrame ==
    [][/\ Running /\ Cur.opcode \in StoreOpcodes =>
            \A sp \in {SplitAt(Cur.args[1].value)}, h \in {heap}, fr \in {frames} :
                /\ UNCHANGED <<frames, frame_stack, call_stack>>
                /\ DOMAIN heap' = DOMAIN h
                /\ \A r \in DOMAIN h :
                      /\ DOMAIN heap'[r] = DOMAIN h[r]
                      /\ \A name \in DOMAIN h[r] :
                            heap'[r][name] # h[r][name] =>
                                r = fr[frame_key(sp.frame_name)] /\ name = sp.var_name
       /\ Running =>
            \A h \in {heap}, opcode \in {Cur.opcode} :
                (\E r \in DOMAIN h \cap DOMAIN heap' : ~(DOMAIN heap'[r] \subseteq DOMAIN h[r]))
                    => opcode = "DEFVAR"
      ]_vars

\* SETCHAR LF@v int@0 string@x has changed v of the local frame from ab to xb
\* and GF@v is still without a value
C29_Witness ==
    /\ phase = "run"
    /\ instr_name = "SETCHAR"
    /\ frame_stack # <<>>
    /\ heap[frames[LF]][NameV] = StrV(<<120, 98>>)
    /\ heap[frames[GF]][NameV] = None

-----------------------------------------------------------------------------
(* Properties of the position, under SpecPc.                               *)

\* C30: in every state current_position is from 0 to the number of
\* instructions and every entry of the call stack is the index, in the sorted
\* list, of a CALL; and the position a JUMP, a CALL or a conditional jump that
\* jumps has set is the index of the LABEL of its label (the loop then steps
\* past it).
C30_Position ==
    /\ [](/\ current_position \in 0..Len(instructions)
          /\ \A k \in 1..Len(call_stack) :
                /\ call_stack[k] \in 0..(Len(instructions) - 1)
                /\ instructions[call_stack[k] + 1].opcode = "CALL")
    /\ [][/\ Running
          /\ Cur.opcode \in {"JUMP", "CALL", "JUMPIFEQ", "JUMPIFNEQ"}
          /\ phase' = "run"
          /\ Cur.opcode \in {"JUMP", "CALL"} \/ current_position' # current_position + 1
          =>
          \A label \in {Cur.args[1].value} :
              /\ current_position' - 1 \in 0..(Len(instructions) - 1)
              /\ instructions[(current_position' - 1) + 1].opcode = "LABEL"
              /\ instructions[(current_position' - 1) + 1].args[1].value = label
      ]_vars

\* a CALL at index 1 has jumped to a LABEL that is the last instruction: the
\* position is the number of instructions and the call stack holds the index 1
C30_Witness ==
    /\ phase = "run"
    /\ instr_name = "CALL"
    /\ Len(instructions) = 3
    /\ current_position = 3
    /\ instructions[3].opcode = "LABEL"
    /\ call_stack = <<1>>
    /\ instructions[2].order = 4

-----------------------------------------------------------------------------
(* Properties of the frames, under SpecFrame.                              *)

\* scenario S4: CREATEFRAME; DEFVAR TF@v; PUSHFRAME; DEFVAR LF@v
ScenarioS4 ==
    <<Body("CREATEFRAME", <<>>), Body("DEFVAR", <<Var(TF, NameV)>>),
      Body("PUSHFRAME", <<>>), Body("DEFVAR", <<Var(LF, NameV)>>)>>

\* C8: DEFVAR FRAME@v fails with 55 when the frame is absent and with 52 when v
\* is already declared in it; otherwise it adds v as an uninitialised slot, of
\* which a read gives 56.  Scenario S4 ends with 52 at its second DEFVAR.
C8_DefVar ==
    [][/\ Dispatch("DEFVAR") =>
            \A var \in {Cur.args[1]} :
                LET sp == SplitAt(var.value)
                    ref == frames[sp.frame_name]
                IN  IF ref = NoFrame
                    THEN phase' = "done" /\ error_code' = 55
                    ELSE IF sp.var_name \in DOMAIN heap[ref]
                    THEN phase' = "done" /\ error_code' = 52
                    ELSE /\ phase' = "run"
                         /\ frames' = frames
                         /\ DOMAIN heap'[ref] = DOMAIN heap[ref] \cup {sp.var_name}
                         /\ heap'[ref][sp.var_name] = None
                         /\ \A n \in DOMAIN heap[ref] : heap'[ref][n] = heap[ref][n]
                         /\ OperandValue(var)'.code = 56
       /\ (Program = ScenarioS4 /\ phase = "done")' =>
            (error_code = 52 /\ current_position = 3 /\ instr_name = "DEFVAR")'
      ]_vars

\* S4 has run: the DEFVAR LF@v after PUSHFRAME failed with 52
C8_Witness ==
    /\ Program = ScenarioS4
    /\ phase = "done"
    /\ error_code = 52
    /\ current_position = 3
    /\ frames[LF] # NoFrame
    /\ heap[frames[LF]][NameV] = None

\* C9: PUSHFRAME fails with 55 when TF is absent; otherwise the frame stack
\* grows by exactly one frame, the new top and the new LF are the former TF
\* with all its variables and values, TF becomes absent, and GF, the call stack
\* and the data stack are unchanged.
C9_PushFrame ==
    [][Dispatch("PUSHFRAME") =>
          IF frames[TF] = NoFrame
          THEN phase' = "done" /\ error_code' = 55
          ELSE /\ phase' = "run"
               /\ Len(frame_stack') = Len(frame_stack) + 1
               /\ Front(frame_stack') = frame_stack
               /\ Top(frame_stack') = frames[TF]
               /\ frames'[LF] = frames[TF]
               /\ heap'[frames'[LF]] = heap[frames[TF]]
               /\ frames'[TF] = NoFrame
               /\ frames'[GF] = frames[GF]
               /\ heap'[frames'[GF]] = heap[frames[GF]]
               /\ UNCHANGED <<call_stack, data_stack>>
      ]_vars

\* a PUSHFRAME has just moved a TF holding v onto the stack, with the call
\* stack and the data stack not empty
C9_Witness ==
    /\ phase = "run"
    /\ instr_name = "PUSHFRAME"
    /\ Len(frame_stack) >= 1
    /\ frames[TF] = NoFrame
    /\ frames[LF] = Top(frame_stack)
    /\ NameV \in DOMAIN heap[frames[LF]]
    /\ Len(call_stack) > 0
    /\ Len(data_stack) > 0

\* C10: POPFRAME fails with 55 when LF is absent; otherwise the top frame is
\* removed from the frame stack and becomes TF, and LF becomes the new top of
\* the frame stack, or absent when the stack became empty.  PUSHFRAME puts its
\* frame on top, so the frames come back in the reverse order of pushing.
C10_PopFrame ==
    [][/\ Dispatch("POPFRAME") =>
            IF frames[LF] = NoFrame
            THEN phase' = "done" /\ error_code' = 55
            ELSE /\ phase' = "run"
                 /\ frame_stack' = Front(frame_stack)
                 /\ frames'[TF] = Top(frame_stack)
                 /\ heap'[frames'[TF]] = heap[Top(frame_stack)]
                 /\ frames'[LF] = IF Len(frame_stack) > 1
                                  THEN frame_stack[Len(frame_stack) - 1]
                                  ELSE NoFrame
                 /\ frames'[LF] # NoFrame => heap'[frames'[LF]] = heap[frames'[LF]]
       /\ Dispatch("PUSHFRAME") /\ frames[TF] # NoFrame =>
            frame_stack' = Append(frame_stack, frames[TF])
      ]_vars

\* two frames were pushed and a POPFRAME has returned the one created last:
\* TF is the later frame (the greater reference), LF the earlier one
C10_Witness ==
    /\ phase = "run"
    /\ instr_name = "POPFRAME"
    /\ Len(frame_stack) = 1
    /\ frames[LF] = frame_stack[1]
    /\ frames[TF] # NoFrame
    /\ frames[TF] > frames[LF]

\* C28: in every state GF exists, LF is absent exactly when the frame stack
\* is empty and is otherwise the frame object on top of the frame stack; so a
\* MOVE to LF@x writes x of the top frame.
C28_LocalFrame ==
    /\ [](/\ frames[GF] # NoFrame
          /\ frames[GF] \in DOMAIN heap
          /\ frames[LF] = NoFrame <=> frame_stack = <<>>
          /\ frame_stack # <<>> => frames[LF] = Top(frame_stack))
    /\ [][/\ Dispatch("MOVE")
          /\ StartsWith(Cur.args[1].value, LF)
          /\ phase' = "run"
          =>
          \A name \in {SplitAt(Cur.args[1].value).var_name},
             v \in {OperandValue(Cur.args[2]).v} :
              heap'[Top(frame_stack')][name] = v
      ]_vars

\* a MOVE to LF@v has written v of the frame on top of the frame stack
C28_Witness ==
    /\ phase = "run"
    /\ instr_name = "MOVE"
    /\ frame_stack # <<>>
    /\ frames[LF] = Top(frame_stack)
    /\ heap[Top(frame_stack)][NameV] = IntV(1)

\* C31: an instruction that fails has no partial effect: in the step that ends
\* the run with a nonzero code, the frames and their variables, the frame
\* stack, the call stack, the data stack, the input cursor, the position and
\* the count of executed instructions are those of the state before it
C31_NoPartialEffect ==
    [][(phase = "run" /\ phase' = "done" /\ error_code' # 0)
          => UNCHANGED <<machine, reader, current_position, executed_instructions_count>>]_vars

\* DEFVAR GF@v; READ GF@v int; PUSHS int@1; POPS GF@w has failed with 54, the
\* pushed value still on the data stack and the input cursor after the line
C31_Witness ==
    /\ phase = "done" /\ error_code = 54 /\ instr_name = "POPS"
    /\ Len(data_stack) = 1 /\ input_line_index = 1
    /\ current_position = 3 /\ executed_instructions_count = 3


\* the document holds no JUMP, JUMPIFEQ, JUMPIFNEQ and CALL
JumpFree ==
    \A k \in DOMAIN doc :
        opcode_upper(doc[k].opcode) \notin {"JUMP", "JUMPIFEQ", "JUMPIFNEQ", "CALL"}

\* the run is over: the loop has ended or failed, or EXIT has left the script
Halted == phase \in {"done", "exit"}

\* C32: a program with no JUMP, JUMPIFEQ, JUMPIFNEQ and CALL terminates within
\* N dispatcher steps, N its number of instructions: once loaded, the position
\* equals the count of executed instructions and never exceeds N; each
\* successful step moves the position forward by exactly one, so that no
\* instruction is executed twice; and the run, once started, comes to its end
C32_Linear ==
    /\ [](JumpFree /\ phase # "load" =>
            /\ current_position = executed_instructions_count
            /\ current_position <= Len(instructions))
    /\ [][JumpFree /\ phase = "run" /\ phase' = "run" =>
            /\ current_position' = current_position + 1
            /\ executed_instructions_count' = executed_instructions_count + 1]_vars
    /\ (JumpFree /\ phase = "run" ~> Halted)

\* a program of MaxLinearLen instructions without jumps has run to its end,
\* each instruction executed once
C32_Witness ==
    /\ JumpFree
    /\ phase = "done" /\ error_code = 0
    /\ Len(instructions) = MaxLinearLen
    /\ current_position = MaxLinearLen
    /\ executed_instructions_count = MaxLinearLen

-----------------------------------------------------------------------------
(* Properties of int literals, under SpecInt.                              *)

\* the int an accepted literal denotes by its form: after the optional sign,
\* base 16 after 0x or 0X, base 8 after 0o or 0O or after a 0 that a digit
\* follows, base 10 otherwise; negated when the sign is -
Denoted(s) ==
    LET body == Unsigned(s)
        base == IF Prefixed(body, 16) THEN 16
                ELSE IF Prefixed(body, 8) THEN 8
                ELSE IF Len(body) >= 2 /\ body[1] = 48 /\ IsDigit(body[2]) THEN 8
                ELSE 10
        digits == IF Prefixed(body, 16) \/ Prefixed(body, 8) THEN Drop(body, 2)
                  ELSE IF base = 8 THEN Drop(body, 1)
                  ELSE body
        n == DigitsValue(digits, 1, base, 0)
    IN  IF Signed(s) /\ s[1] = 45 THEN 0 - n ELSE n

\* C33: a MOVE to a declared variable of an int literal that the int lexer
\* accepts does not fail, and stores the int the literal denotes by its form:
\* base 10, 8 or 16, negated after the sign -
C33_IntLiteral ==
    [][/\ Dispatch("MOVE")
       /\ is_variable_defined(Cur.args[1].value) = 0
       /\ Cur.args[2].arg_type = "int"
       /\ IntLex(Cur.args[2].value)
       =>
       \A var \in {Cur.args[1]}, n \in {Denoted(Cur.args[2].value)} :
           phase' = "run" /\ Slot(var)' = IntV(n)
      ]_vars

=============================================================================
